---- MODULE Spec2Model ----
(***************************************************************************)
(* Model of the tool-call extraction and arbitration code of               *)
(* meeting-autopilot: src/main.py (generate_hybrid and its helpers) and    *)
(* src/meeting_autopilot_app.py (_route_plan).                             *)
(*                                                                         *)
(* Representation                                                          *)
(*   - a Python str is a sequence of tokens; the token " " is a run of     *)
(*     whitespace, every other token is one word.  "" is <<>>.  The        *)
(*     substring test `s in q` is the contiguous-subsequence test on       *)
(*     tokens.                                                             *)
(*   - an argument value is a record tagged with its Python type.          *)
(*   - a float is an exact rational <<numerator, denominator>>.            *)
(***************************************************************************)
EXTENDS Integers, Sequences, FiniteSets, TLC

VARIABLES
  h,      \* one generate_hybrid request (src/main.py:879-968)
  r,      \* one _route_plan request (src/meeting_autopilot_app.py:288-463)
  cm,     \* the module-level cached model handle and the threads using it
  f,      \* one application of a pure helper (_run_inference, _validate)
  sm      \* the session metrics and the threads updating them
          \* (src/meeting_autopilot_app.py:128-129, 481-526)

vars == <<h, r, cm, f, sm>>

(***************************************************************************)
(* Generic helpers                                                         *)
(***************************************************************************)
Range(s) == {s[i] : i \in 1..Len(s)}

RECURSIVE Gcd(_, _)
Gcd(a, b) == IF b = 0 THEN a ELSE Gcd(b, a % b)

Abs(n) == IF n < 0 THEN -n ELSE n

\* Exact rationals <<n, d>> with d > 0, kept in lowest terms.
Rat(n, d) ==
  LET g == Gcd(Abs(n), d)
  IN IF g = 0 THEN <<0, 1>> ELSE <<n \div g, d \div g>>

RLe(a, b) == a[1] * b[2] <= b[1] * a[2]
RLt(a, b) == a[1] * b[2] <  b[1] * a[2]
RMax(a, b) == IF RLt(a, b) THEN b ELSE a
RMin(a, b) == IF RLt(b, a) THEN b ELSE a
RAdd(a, b) == Rat(a[1] * b[2] + b[1] * a[2], a[2] * b[2])
RMul(a, b) == Rat(a[1] * b[1], a[2] * b[2])

R0 == <<0, 1>>
R1 == <<1, 1>>

(***************************************************************************)
(* Strings as token sequences                                              *)
(***************************************************************************)
WS == " "

\* str.lower() on one token; the only capitalised tokens of the model.
LowerTok(t) ==
  CASE t = "Bob"   -> "bob"
    [] t = "Paris" -> "paris"
    [] t = "Then"  -> "then"
    [] t = "Set"   -> "set"
    [] OTHER       -> t

RECURSIVE Lower(_)
Lower(s) ==
  IF s = <<>> THEN <<>> ELSE <<LowerTok(Head(s))>> \o Lower(Tail(s))

RECURSIVE LStrip(_)
LStrip(s) == IF s # <<>> /\ Head(s) = WS THEN LStrip(Tail(s)) ELSE s

RECURSIVE RStrip(_)
RStrip(s) ==
  IF s # <<>> /\ s[Len(s)] = WS THEN RStrip(SubSeq(s, 1, Len(s) - 1)) ELSE s

\* str.strip()
Strip(s) == RStrip(LStrip(s))

\* `s in q` for Python strings
InText(s, q) ==
  \E i \in 0..(Len(q) - Len(s)) : \A j \in 1..Len(s) : q[i + j] = s[j]

\* Tokens that contain the character "@"
AtTokens == {"a@b"}
HasAt(s) == \E i \in 1..Len(s) : s[i] \in AtTokens

\* re.split(r"[^a-z0-9]+", tok): an address-like token falls apart at "@"
SplitTok(t) ==
  IF t = "a@b" THEN <<"a", "b">> ELSE IF t = WS THEN <<>> ELSE <<t>>

RECURSIVE AlnumToks(_)
AlnumToks(s) ==
  IF s = <<>> THEN <<>> ELSE SplitTok(Head(s)) \o AlnumToks(Tail(s))

(***************************************************************************)
(* Argument values and calls                                               *)
(***************************************************************************)
Str(s)   == [k |-> "str",  s |-> s,    n |-> 0, items |-> <<>>]
Num(n)   == [k |-> "num",  s |-> <<>>, n |-> n, items |-> <<>>]
List(xs) == [k |-> "list", s |-> <<>>, n |-> 0, items |-> xs]
None     == [k |-> "none", s |-> <<>>, n |-> 0, items |-> <<>>]
\* a field whose value is missing in the raw text: `"key":}`
Hole     == [k |-> "hole", s |-> <<>>, n |-> 0, items |-> <<>>]

Call(name, args) == [name |-> name, arguments |-> args]

\* dict.get(key) on an argument map: None when the key is absent
Get(args, key) == IF key \in DOMAIN args THEN args[key] ELSE None

(***************************************************************************)
(* Keyword table                                                           *)
(***************************************************************************)
ToolNames ==
  {"get_weather", "set_alarm", "send_message", "create_reminder",
   "search_contacts", "play_music", "set_timer"}

_TOOL_KEYWORDS(name) ==
  CASE name = "get_weather" ->
         {<<"weather">>, <<"temperature">>, <<"forecast">>, <<"hot">>,
          <<"cold">>, <<"rain">>, <<"sunny">>}
    [] name = "set_alarm" -> {<<"alarm">>, <<"wake">>, <<"alert">>}
    [] name = "send_message" ->
         {<<"message">>, <<"send">>, <<"text">>, <<"tell">>, <<"say">>,
          <<"write">>}
    [] name = "create_reminder" ->
         {<<"remind">>, <<"reminder">>, <<"remember">>, <<"note">>,
          <<"memo">>}
    [] name = "search_contacts" ->
         {<<"find">>, <<"search">>, <<"look">>, <<"contact">>,
          <<"directory">>}
    [] name = "play_music" ->
         {<<"play">>, <<"music">>, <<"song">>, <<"listen">>, <<"hear">>,
          <<"playlist">>, <<"beats">>, <<"track">>, <<"jazz">>,
          <<"classical">>, <<"rock">>, <<"pop">>}
    [] name = "set_timer" ->
         {<<"timer">>, <<"countdown">>, <<"count", "down">>}
    [] OTHER -> {}

KeywordInText(name, q) == \E kw \in _TOOL_KEYWORDS(name) : InText(kw, q)

(***************************************************************************)
(* Tool capability registry: a sequence of descriptors                     *)
(*   [name |-> tool name, required |-> sequence of parameter names]        *)
(***************************************************************************)
Tool(name, required) == [name |-> name, required |-> required]

\* tool_map = {t["name"]: t for t in tools}: a later descriptor overrides
RegisteredNames(tools) == {tools[i].name : i \in 1..Len(tools)}

RequiredOf(tools, name) ==
  LET idx == {i \in 1..Len(tools) : tools[i].name = name}
      last == CHOOSE i \in idx : \A j \in idx : j <= i
  IN tools[last].required

(***************************************************************************)
(* _validate (src/main.py:201-213)                                         *)
(***************************************************************************)
\* val is None or val == "" or (isinstance(val, list) and not val)
IsRejectedValue(val) ==
  \/ val.k = "none"
  \/ val.k = "str" /\ val.s = <<>>
  \/ val.k = "list" /\ val.items = <<>>

CallPasses(call, tools) ==
  /\ call.name \in RegisteredNames(tools)
  /\ LET required == RequiredOf(tools, call.name)
     IN \A i \in 1..Len(required) :
          ~IsRejectedValue(Get(call.arguments, required[i]))

_validate(calls, tools) ==
  \A i \in 1..Len(calls) : CallPasses(calls[i], tools)

(***************************************************************************)
(* _call_key, _dedupe_calls (src/main.py:224-240)                          *)
(***************************************************************************)
\* Parameter names in the order sort_keys=True serialises them.
SortedKeys ==
  <<"channel", "hour", "location", "message", "minute", "minutes", "query",
    "recipient", "song", "time", "title">>

\* json.dumps(arguments, sort_keys=True): the <<key, value>> pairs in key order
RECURSIVE DumpFrom(_, _)
DumpFrom(args, i) ==
  IF i > Len(SortedKeys) THEN <<>>
  ELSE IF SortedKeys[i] \in DOMAIN args
       THEN <<<<SortedKeys[i], args[SortedKeys[i]]>>>> \o DumpFrom(args, i + 1)
       ELSE DumpFrom(args, i + 1)

\* a key that ignores the arguments
_call_key_NameOnly(call) == <<call.name, <<>>>>

_call_key(call) == <<call.name, DumpFrom(call.arguments, 1)>>

RECURSIVE DedupeFrom(_, _, _)
DedupeFrom(calls, seen, out) ==
  IF calls = <<>> THEN out
  ELSE LET key == _call_key(Head(calls))
       IN IF key \in seen
          THEN DedupeFrom(Tail(calls), seen, out)
          ELSE DedupeFrom(Tail(calls), seen \cup {key}, Append(out, Head(calls)))

\* a pass that removes only the first repeated call it meets
_dedupe_calls_Once(calls) ==
  LET dup == {i \in 1..Len(calls) :
                \E j \in 1..(i - 1) : _call_key(calls[j]) = _call_key(calls[i])}
  IN IF dup = {} THEN calls
     ELSE LET d == CHOOSE i \in dup : \A k \in dup : i <= k
          IN SubSeq(calls, 1, d - 1) \o SubSeq(calls, d + 1, Len(calls))

_dedupe_calls(calls) == DedupeFrom(calls, {}, <<>>)

(***************************************************************************)
(* _candidate_score (src/main.py:243-303)                                  *)
(***************************************************************************)
RECURSIVE SumUpTo(_, _)
SumUpTo(s, n) == IF n = 0 THEN 0 ELSE SumUpTo(s, n - 1) + s[n]

SumSeq(s) == SumUpTo(s, Len(s))

\* str(v) for an argument value
StrOf(v) ==
  CASE v.k = "str"  -> v.s
    [] v.k = "num"  -> <<ToString(v.n)>>
    [] v.k = "none" -> <<"None">>
    [] OTHER        -> <<"[]">>

\* number of tokens of s found in q
TokenHits(toks, q) ==
  Cardinality({i \in 1..Len(toks) : InText(<<toks[i]>>, q)})

Max2(a, b) == IF a < b THEN b ELSE a

\* points of one argument value in _candidate_score
ArgPoints(v, q) ==
  IF v.k = "num"
  THEN IF InText(<<ToString(Abs(v.n))>>, q) THEN 2 ELSE 0
  ELSE IF v.k = "str"
  THEN LET s == Lower(Strip(v.s))
           toks == AlnumToks(s)
       IN IF s = <<>> THEN 0
          ELSE IF InText(s, q) THEN 3
          ELSE IF toks # <<>> /\ TokenHits(toks, q) >= Max2(1, Len(toks) - 1)
               THEN 1 ELSE 0
  ELSE 0

FillerRecipients ==
  {<<"a">>, <<"an">>, <<"the">>, <<"message">>, <<"text">>, <<"saying">>}

ActionWords ==
  {"remind", "alarm", "timer", "weather", "play", "search", "contact",
   "message", "text"}

\* penalties of one send_message call
MessagePenalty(args, q) ==
  LET rec == Lower(Strip(IF "recipient" \in DOMAIN args
                         THEN StrOf(args["recipient"]) ELSE <<>>))
      msg == Lower(Strip(IF "message" \in DOMAIN args
                         THEN StrOf(args["message"]) ELSE <<>>))
      aw_hits == Cardinality({w \in ActionWords : InText(<<w>>, msg)})
  IN (IF rec \in FillerRecipients THEN 20 ELSE 0)
     + (IF HasAt(rec) /\ ~HasAt(q) THEN 10 ELSE 0)
     + (IF msg # <<>> /\ aw_hits >= 2 THEN 8 ELSE 0)

CallPoints(call, q) ==
  LET args == call.arguments
      keys == DOMAIN args
      argSeq == [i \in 1..Len(SortedKeys) |->
                   IF SortedKeys[i] \in keys
                   THEN ArgPoints(args[SortedKeys[i]], q) ELSE 0]
  IN (IF KeywordInText(call.name, q) THEN 4 ELSE 0)
     + SumSeq(argSeq)
     - (IF call.name = "send_message" THEN MessagePenalty(args, q) ELSE 0)

_candidate_score(calls, tools, query, expected_actions) ==
  IF calls = <<>> THEN -10000
  ELSE LET q == Lower(query)
           names == [i \in 1..Len(calls) |-> calls[i].name]
       IN (IF _validate(calls, tools) THEN 100 ELSE -100)
          + 15 * Len(calls)
          - (IF expected_actions # 0
             THEN 6 * Abs(Len(calls) - expected_actions) ELSE 0)
          - 4 * (Len(names) - Cardinality(Range(names)))
          + SumSeq([i \in 1..Len(calls) |-> CallPoints(calls[i], q)])

(***************************************************************************)
(* _deterministic_quality (src/main.py:306-358)                            *)
(***************************************************************************)
\* credit earned by one required parameter
ReqCredit(v, q) ==
  IF v.k = "num"
  THEN IF InText(<<ToString(Abs(v.n))>>, q) THEN 2 ELSE 1
  ELSE IF v.k = "str"
  THEN LET s == Lower(Strip(v.s))
           toks == AlnumToks(s)
       IN IF s = <<>> THEN 0
          ELSE IF InText(s, q) THEN 2
          ELSE IF toks # <<>> /\ TokenHits(toks, q) >= Max2(1, Len(toks) - 1)
               THEN 1 ELSE 0
  ELSE 0

QualityEarned(call, tools, q) ==
  LET required == RequiredOf(tools, call.name)
  IN (IF KeywordInText(call.name, q) THEN 2 ELSE 0)
     + SumSeq([i \in 1..Len(required) |->
                 ReqCredit(Get(call.arguments, required[i]), q)])

QualityMax(call, tools) == 2 + 2 * Len(RequiredOf(tools, call.name))

_deterministic_quality(calls, tools, query) ==
  IF calls = <<>> THEN R0
  ELSE IF ~_validate(calls, tools) THEN R0
  ELSE LET q == Lower(query)
           score == SumSeq([i \in 1..Len(calls) |->
                              QualityEarned(calls[i], tools, q)])
           max_score == SumSeq([i \in 1..Len(calls) |->
                                  QualityMax(calls[i], tools)])
       IN IF max_score <= 0 THEN R0
          ELSE RMax(R0, RMin(R1, Rat(score, max_score)))

(***************************************************************************)
(* Deterministic parser: spans                                             *)
(*                                                                         *)
(* A span is the text of one part of the utterance (toks) together with    *)
(* what the regular-expression extractors of src/main.py:424-704 return    *)
(* on that text.  An extractor that returns None or "" is the empty        *)
(* sequence; _parse_minutes returning None is the value None.              *)
(***************************************************************************)
Span(toks, ext) == [toks |-> toks, ext |-> ext]

NoExt ==
  [query |-> <<>>, recipient |-> <<>>, body |-> <<>>, title |-> <<>>,
   time |-> <<>>, alarm |-> <<>>, mins |-> None, location |-> <<>>,
   song |-> <<>>]

_ACTION_HINTS ==
  {<<"weather">>, <<"forecast">>, <<"temperature">>, <<"hot">>, <<"cold">>,
   <<"rain">>, <<"raining">>, <<"sunny">>, <<"snow">>, <<"snowing">>,
   <<"humid">>, <<"alarm">>, <<"wake", "me", "up">>, <<"wake", "me">>,
   <<"alert", "me">>, <<"timer">>, <<"countdown">>, <<"count", "down">>,
   <<"remind">>, <<"reminder">>, <<"remember">>, <<"find">>,
   <<"look", "up">>, <<"lookup">>, <<"search">>, <<"contact">>, <<"play">>,
   <<"music">>, <<"song">>, <<"listen">>, <<"playlist">>, <<"text">>,
   <<"message">>, <<"send">>, <<"tell">>, <<"notify">>}

_WEATHER_CUES ==
  {<<"weather">>, <<"forecast">>, <<"temperature">>, <<"hot">>, <<"cold">>,
   <<"rain">>, <<"raining">>, <<"rainy">>, <<"sunny">>, <<"snow">>,
   <<"snowing">>, <<"humid">>, <<"humidity">>, <<"windy">>}

_PRONOUNS == {<<"him">>, <<"her">>, <<"them">>}

AnyInText(phrases, low) == \E p \in phrases : InText(p, low)

\* _contains_action (src/main.py:396-398)
_contains_action(toks) == AnyInText(_ACTION_HINTS, Lower(toks))

\* the trigger cue of each capability in _parse_part
CueMatches(name, low) ==
  CASE name = "search_contacts" ->
         AnyInText({<<"contact">>, <<"find">>, <<"look", "up">>,
                    <<"search">>}, low)
    [] name = "send_message" ->
         AnyInText({<<"message">>, <<"text">>, <<"send">>, <<"tell">>,
                    <<"notify">>}, low)
    [] name = "create_reminder" ->
         AnyInText({<<"remind">>, <<"reminder">>, <<"remember">>}, low)
    [] name = "set_alarm" ->
         AnyInText({<<"alarm">>, <<"wake", "me", "up">>, <<"wake", "me">>,
                    <<"alert", "me">>}, low)
    [] name = "set_timer" ->
         AnyInText({<<"timer">>, <<"countdown">>, <<"count", "down">>}, low)
    [] name = "get_weather" -> AnyInText(_WEATHER_CUES, low)
    [] name = "play_music" ->
         \/ AnyInText({<<"play">>, <<"music">>, <<"song">>, <<"listen">>,
                       <<"playlist">>}, low)
         \/ (low # <<>> /\ Head(low) = "hear")
    [] OTHER -> FALSE

\* an order that tries the weather before the messages
ParseOrder_WeatherEarly ==
  <<"search_contacts", "get_weather", "send_message", "create_reminder",
    "set_alarm", "set_timer", "play_music">>

\* the fixed order in which _parse_part tries the capabilities
ParseOrder ==
  <<"search_contacts", "send_message", "create_reminder", "set_alarm",
    "set_timer", "get_weather", "play_music">>

NoCall == Call("<none>", <<>>)

\* a pronoun that is never resolved
ResolvedRecipient_Never(ext, context) == ext.recipient

\* recipient after pronoun resolution against the context
ResolvedRecipient(ext, context) ==
  IF Lower(ext.recipient) \in _PRONOUNS /\ context.last_contact # <<>>
  THEN context.last_contact ELSE ext.recipient

\* what one branch of _parse_part returns: the call, or NoCall to fall through
Emit(name, ext, context) ==
  CASE name = "search_contacts" ->
         IF ext.query # <<>>
         THEN Call(name, [query |-> Str(ext.query)]) ELSE NoCall
    [] name = "send_message" ->
         IF ext.recipient # <<>> /\ ext.body # <<>>
         THEN Call(name, [recipient |-> Str(ResolvedRecipient(ext, context)),
                          message |-> Str(ext.body)])
         ELSE NoCall
    [] name = "create_reminder" ->
         IF ext.title # <<>> /\ ext.time # <<>>
         THEN Call(name, [title |-> Str(ext.title), time |-> Str(ext.time)])
         ELSE NoCall
    [] name = "set_alarm" ->
         IF ext.alarm # <<>> THEN Call(name, ext.alarm) ELSE NoCall
    [] name = "set_timer" ->
         IF ext.mins.k # "none"
         THEN Call(name, [minutes |-> ext.mins]) ELSE NoCall
    [] name = "get_weather" ->
         IF ext.location # <<>>
         THEN Call(name, [location |-> Str(ext.location)]) ELSE NoCall
    [] name = "play_music" ->
         IF ext.song # <<>>
         THEN Call(name, [song |-> Str(ext.song)]) ELSE NoCall
    [] OTHER -> NoCall

RECURSIVE ParseFrom(_, _, _, _)
ParseFrom(i, part, available, context) ==
  IF i > Len(ParseOrder) THEN NoCall
  ELSE LET name == ParseOrder[i]
           call == IF name \in available /\ CueMatches(name, Lower(part.toks))
                   THEN Emit(name, part.ext, context) ELSE NoCall
       IN IF call # NoCall THEN call
          ELSE ParseFrom(i + 1, part, available, context)

\* _parse_part (src/main.py:707-762): the call, or NoCall for None
_parse_part(part, available, context) == ParseFrom(1, part, available, context)

\* context["last_contact"] after _parse_part returned `call`
ContextAfter(call, context) ==
  CASE call.name = "search_contacts" ->
         [last_contact |-> call.arguments["query"].s]
    [] call.name = "send_message" ->
         [last_contact |-> call.arguments["recipient"].s]
    [] OTHER -> context

\* the loop of src/main.py:889-894
RECURSIVE ParseParts(_, _, _)
ParseParts(parts, available, context) ==
  IF parts = <<>> THEN <<>>
  ELSE LET call == _parse_part(Head(parts), available, context)
           rest == ParseParts(Tail(parts), available,
                              ContextAfter(call, context))
       IN IF call # NoCall THEN <<call>> \o rest ELSE rest

\* _estimate_expected_actions (src/main.py:216-221)
_estimate_expected_actions(parts) ==
  IF parts = <<>> THEN 0
  ELSE Max2(1, Cardinality({i \in 1..Len(parts) :
                              _contains_action(parts[i].toks)}))

\* the user text whose parts are `parts`: the parts separated by commas
RECURSIVE UserQuery(_)
UserQuery(parts) ==
  IF parts = <<>> THEN <<>>
  ELSE IF Len(parts) = 1 THEN Head(parts).toks
  ELSE Head(parts).toks \o <<",">> \o UserQuery(Tail(parts))

(***************************************************************************)
(* _clean_calls (src/main.py:161-197)                                      *)
(***************************************************************************)
_TIME_FIELDS == {"hour", "minute", "minutes"}

\* the characters of v.rstrip("!.',;:"), one token each
TrailPunct == {"!", ".", "'", ",", ";", ":"}

RECURSIVE RStripPunct(_)
RStripPunct(s) ==
  IF s # <<>> /\ s[Len(s)] \in TrailPunct
  THEN RStripPunct(SubSeq(s, 1, Len(s) - 1)) ELSE s

\* largest number written out in the model's texts
MaxNum == 12

IsDigitTok(t) == \E n \in 0..MaxNum : ToString(n) = t
IntOfTok(t) == CHOOSE n \in 0..MaxNum : ToString(n) = t

RECURSIVE LStripMinus(_)
LStripMinus(s) ==
  IF s # <<>> /\ Head(s) = "-" THEN LStripMinus(Tail(s)) ELSE s

\* v.lstrip("-").isdigit()
IsDigitStr(s) ==
  LET d == LStripMinus(s) IN Len(d) = 1 /\ IsDigitTok(d[1])

\* _ISO_TS: the one ISO timestamp of the model, 2024-01-01T15:05:00
IsoTok == "2024-01-01T15:05:00"
IsoHour == 15
IsoMinute == 5

Pad2(n) == IF n < 10 THEN <<"0", ToString(n)>> ELSE <<ToString(n)>>

\* f"{h % 12 or 12}:{mn:02d} {per}"
ClockText(hr, mn) ==
  <<ToString(IF hr % 12 = 0 THEN 12 ELSE hr % 12), ":">> \o Pad2(mn)
    \o <<IF hr < 12 THEN "AM" ELSE "PM">>

\* _REMIND_STRIP: the imperative prefixes removed from a title
RemindPrefixes ==
  {<<"remind", "me", "about">>, <<"remind", "me", "to">>,
   <<"reminder", "about">>, <<"reminder", "to">>, <<"remember", "to">>,
   <<"don't", "forget", "about">>, <<"don't", "forget", "to">>,
   <<"dont", "forget", "about">>, <<"dont", "forget", "to">>}

HasPrefix(s, p) ==
  Len(s) > Len(p) /\ Lower(SubSeq(s, 1, Len(p))) = p

StripRemind(s) ==
  IF \E p \in RemindPrefixes : HasPrefix(s, p)
  THEN LET p == CHOOSE x \in RemindPrefixes : HasPrefix(s, x)
       IN Strip(SubSeq(s, Len(p) + 1, Len(s)))
  ELSE Strip(s)

Raised == [k |-> "raise", s |-> <<>>, n |-> 0, items |-> <<>>]

\* the value stored back into args[k]; Raised when int(v) raises ValueError
CleanScalar(key, v, orig) ==
  IF v.k = "str"
  THEN LET t == RStripPunct(v.s)
       IN IF IsDigitStr(t)
          THEN IF Len(t) <= 2 THEN Num(IntOfTok(t[Len(t)])) ELSE Raised
          ELSE IF t # <<>> /\ t[1] = IsoTok
          THEN Str(ClockText(IsoHour, IsoMinute))
          ELSE IF key = "title" THEN Str(StripRemind(t))
          ELSE Str(t)
  ELSE IF v.k = "num"
  THEN IF key \in _TIME_FIELDS THEN Num(Abs(v.n))
       ELSE Str(<<ToString(v.n)>>)
  ELSE orig

CleanValue(key, v) ==
  IF v.k = "list"
  THEN CleanScalar(key, IF v.items # <<>> THEN v.items[1] ELSE Str(<<>>), v)
  ELSE CleanScalar(key, v, v)

CleanArgs(args) == [key \in DOMAIN args |-> CleanValue(key, args[key])]

ArgsRaise(args) == \E key \in DOMAIN args : args[key] = Raised

\* _clean_calls (src/main.py:168-197) on a list of calls
CleanCalls(calls) ==
  [i \in 1..Len(calls) |-> Call(calls[i].name, CleanArgs(calls[i].arguments))]

(***************************************************************************)
(* Raw payloads of the local inference engine                              *)
(*                                                                         *)
(* A payload is the text cactus_complete returns:                          *)
(*   garbage - the text is not JSON and no repair rule applies             *)
(*   kind    - the JSON type of the top-level value                        *)
(*   fc      - the "function_calls" member                                 *)
(*   time, conf - the "total_time_ms" and "confidence" members             *)
(* An argument value Hole is a member written `"key":}`.                   *)
(***************************************************************************)
Absent  == [k |-> "absent", v |-> R0]
JNull   == [k |-> "null",   v |-> R0]
JNum(v) == [k |-> "num",    v |-> v]
JText   == [k |-> "str",    v |-> R0]

FcAbsent      == [k |-> "absent", items |-> <<>>]
FcNull        == [k |-> "null",   items |-> <<>>]
FcNumber      == [k |-> "num",    items |-> <<>>]
FcList(items) == [k |-> "list",   items |-> items]

\* elements of the function_calls list
ArgsDict(m)  == [k |-> "dict",   m |-> m]
ArgsNull     == [k |-> "null",   m |-> <<>>]
ArgsAbsent   == [k |-> "absent", m |-> <<>>]
ElemCall(name, args) == [k |-> "dict", name |-> name, args |-> args]
ElemString == [k |-> "str", name |-> "", args |-> ArgsAbsent]

Payload(garbage, kind, fc, time, conf) ==
  [garbage |-> garbage, kind |-> kind, fc |-> fc, time |-> time, conf |-> conf]

\* _sanitize (src/main.py:150-157): `"key":}` becomes `"key":""}`
SanitizeArgs(args) ==
  [k |-> args.k,
   m |-> [key \in DOMAIN args.m |->
            IF args.m[key] = Hole THEN Str(<<>>) ELSE args.m[key]]]

_sanitize(raw) ==
  [raw EXCEPT !.fc.items =
     [i \in 1..Len(raw.fc.items) |->
        [raw.fc.items[i] EXCEPT !.args = SanitizeArgs(raw.fc.items[i].args)]]]

HasHole(raw) ==
  \E i \in 1..Len(raw.fc.items) :
    \E key \in DOMAIN raw.fc.items[i].args.m :
      raw.fc.items[i].args.m[key] = Hole

\* json.loads raises JSONDecodeError
JsonDecodeError(text) == text.garbage \/ HasHole(text)

(***************************************************************************)
(* _run_inference (src/main.py:766-794)                                    *)
(***************************************************************************)
LocalResult(calls, time, conf) ==
  [raised |-> FALSE, function_calls |-> calls, total_time_ms |-> time,
   confidence |-> conf]

LocalRaised ==
  [raised |-> TRUE, function_calls |-> <<>>, total_time_ms |-> JNum(R0),
   confidence |-> JNum(R0)]

\* dict.get(key, default) on the parsed document
GetOr(member, default) == IF member.k = "absent" THEN default ELSE member

\* _clean_calls raises on this element
ElemRaises(e) ==
  \/ e.k # "dict"
  \/ e.args.k = "null"
  \/ e.args.k = "dict" /\ ArgsRaise(CleanArgs(e.args.m))

CleanElem(e) ==
  Call(e.name, IF e.args.k = "dict" THEN CleanArgs(e.args.m) ELSE <<>>)

\* what the code after cactus_complete does with the returned text
ParsePayload(raw) ==
  LET data == _sanitize(raw)
  IN IF JsonDecodeError(data)
     THEN LocalResult(<<>>, JNum(R0), JNum(R0))
     ELSE IF data.kind # "object" THEN LocalRaised
     ELSE IF data.fc.k \in {"null", "num"} THEN LocalRaised
     ELSE IF \E i \in 1..Len(data.fc.items) : ElemRaises(data.fc.items[i])
     THEN LocalRaised
     ELSE LocalResult([i \in 1..Len(data.fc.items) |->
                         CleanElem(data.fc.items[i])],
                      GetOr(data.time, JNum(R0)),
                      GetOr(data.conf, JNum(R0)))

(***************************************************************************)
(* The local tier as one request sees it                                   *)
(*                                                                         *)
(* A behaviour of the external engine during one call of generate_cactus   *)
(* or _ondevice_probe_ms:                                                  *)
(*   cached   - _CACHED_MODEL is set when the call starts                  *)
(*   init_ok  - cactus_init returns (else it raises)                       *)
(*   reset_ok - cactus_reset returns (else it raises)                      *)
(*   raises   - cactus_complete raises                                     *)
(*   raw      - the text cactus_complete returns otherwise                 *)
(***************************************************************************)
Tier(cached, init_ok, reset_ok, raises, raw) ==
  [cached |-> cached, init_ok |-> init_ok, reset_ok |-> reset_ok,
   raises |-> raises, raw |-> raw]

\* _get_cached_model (src/main.py:28-38) raises
GetCachedModelRaises(env) ==
  IF ~env.cached THEN ~env.init_ok
  ELSE ~env.reset_ok /\ ~env.init_ok

\* generate_cactus (src/main.py:798-801)
generate_cactus(env) ==
  IF GetCachedModelRaises(env) \/ env.raises THEN LocalRaised
  ELSE ParsePayload(env.raw)

\* float(x) raises for null and for non-numeric text
FloatRaises(j) == j.k # "num"

\* _ondevice_probe_ms (src/main.py:804-823)
_ondevice_probe_ms(env) ==
  IF GetCachedModelRaises(env) \/ env.raises
  THEN [raised |-> TRUE, ms |-> R0]
  ELSE LET data == _sanitize(env.raw)
           t == GetOr(data.time, JNum(R0))
       IN IF JsonDecodeError(data) \/ data.kind # "object" \/ FloatRaises(t)
          THEN [raised |-> FALSE, ms |-> R1]
          ELSE [raised |-> FALSE, ms |-> IF RLt(R0, t.v) THEN t.v ELSE R1]

(***************************************************************************)
(* generate_hybrid (src/main.py:879-968)                                   *)
(***************************************************************************)
QualityFloor == <<45, 100>>
\* a lower confidence floor on the probe path
ProbeConfidence_Low == <<90, 100>>

ProbeConfidence == <<92, 100>>
LocalFloor == <<80, 100>>
MergedFloor == <<85, 100>>
DetFloor == <<75, 100>>

AvailableNames(tools) == RegisteredNames(tools)

NeedLocalModel_NoCount(det_calls, expected_actions, det_valid, det_quality) ==
  \/ det_calls = <<>>
  \/ det_calls # <<>> /\ (~det_valid \/ RLt(det_quality, QualityFloor))

\* src/main.py:901-907
NeedLocalModel(det_calls, expected_actions, det_valid, det_quality) ==
  \/ det_calls = <<>>
  \/ expected_actions # 0 /\ Len(det_calls) < expected_actions
  \/ det_calls # <<>> /\ (~det_valid \/ RLt(det_quality, QualityFloor))

\* a pool that takes every non-empty set, valid or not
Candidates_AnyNonEmpty(det_calls, det_valid, local_calls, local_valid) ==
  (IF det_calls # <<>> THEN <<<<"det", det_calls>>>> ELSE <<>>)
  \o (IF local_calls # <<>> THEN <<<<"local", local_calls>>>> ELSE <<>>)
  \o (IF det_calls # <<>> /\ local_calls # <<>>
      THEN <<<<"merged", _dedupe_calls(det_calls \o local_calls)>>>>
      ELSE <<>>)

\* src/main.py:922-928: the pool, in the order it is built
Candidates(det_calls, det_valid, local_calls, local_valid) ==
  (IF det_valid /\ det_calls # <<>> THEN <<<<"det", det_calls>>>> ELSE <<>>)
  \o (IF local_valid /\ local_calls # <<>>
      THEN <<<<"local", local_calls>>>> ELSE <<>>)
  \o (IF det_valid /\ det_calls # <<>> /\ local_valid /\ local_calls # <<>>
      THEN <<<<"merged", _dedupe_calls(det_calls \o local_calls)>>>>
      ELSE <<>>)

\* a bias to the local member
BiasedScore_LocalBias(cand, tools, query, expected_actions) ==
  _candidate_score(cand[2], tools, query, expected_actions)
    + (IF cand[1] = "local" THEN 1 ELSE 0)

\* score of one pool member, with the bias to the deterministic one
BiasedScore(cand, tools, query, expected_actions) ==
  _candidate_score(cand[2], tools, query, expected_actions)
    + (IF cand[1] = "det" THEN 1 ELSE 0)

\* best_score = -1e18 (src/main.py:933): below every score, here within the
\* 32-bit integers of the checker
BestScoreStart == -1000000000

\* src/main.py:931-942: the first member with the greatest score
RECURSIVE BestFrom(_, _, _, _)
BestFrom(scores, i, best_name, best_score) ==
  IF i > Len(scores) THEN best_name
  ELSE IF scores[i][2] > best_score
       THEN BestFrom(scores, i + 1, scores[i][1], scores[i][2])
       ELSE BestFrom(scores, i + 1, best_name, best_score)

\* the score of every pool member, in pool order
RECURSIVE ScoresFrom(_, _, _, _, _)
ScoresFrom(cands, i, tools, query, expected_actions) ==
  IF i > Len(cands) THEN <<>>
  ELSE <<<<i, BiasedScore(cands[i], tools, query, expected_actions)>>>>
         \o ScoresFrom(cands, i + 1, tools, query, expected_actions)

BestCandidate(cands, tools, query, expected_actions) ==
  cands[BestFrom(ScoresFrom(cands, 1, tools, query, expected_actions),
                 1, 0, BestScoreStart)]

\* one floor for every origin
FloorOf_Flat(best_name) == DetFloor

\* src/main.py:944-949
FloorOf(best_name) ==
  CASE best_name = "local"  -> LocalFloor
    [] best_name = "merged" -> MergedFloor
    [] OTHER                -> DetFloor

NoPayload == Payload(TRUE, "object", FcAbsent, Absent, Absent)

HybridStart ==
  [pc |-> "start", tools |-> <<>>, parts |-> <<>>, user_query |-> <<>>,
   expected_actions |-> 0, det_calls |-> <<>>, det_valid |-> FALSE,
   det_quality |-> R0, need_local_model |-> FALSE,
   local_failed |-> FALSE, local |-> LocalResult(<<>>, JNum(R0), JNum(R0)),
   local_calls |-> <<>>, local_valid |-> FALSE, candidates |-> <<>>,
   best_name |-> "", chosen_calls |-> <<>>, confidence |-> R0,
   n_det |-> 0, n_full |-> 0, n_probe |-> 0]

\* src/main.py:883-907: the deterministic pass and the escalation decision
Deterministic ==
  /\ h.pc = "start"
  /\ \E user_query \in {UserQuery(h.parts)} :
     \E det_calls \in {_dedupe_calls(
                         ParseParts(h.parts, AvailableNames(h.tools),
                                    [last_contact |-> <<>>]))} :
     \E expected_actions \in {_estimate_expected_actions(h.parts)} :
     \E det_valid \in {IF det_calls # <<>> THEN _validate(det_calls, h.tools)
                       ELSE FALSE} :
     \E det_quality \in {IF det_calls # <<>>
                         THEN _deterministic_quality(det_calls, h.tools,
                                                     user_query)
                         ELSE R0} :
       h' = [h EXCEPT
               !.pc = "parsed",
               !.user_query = user_query,
               !.expected_actions = expected_actions,
               !.det_calls = det_calls,
               !.det_valid = det_valid,
               !.det_quality = det_quality,
               !.need_local_model =
                  NeedLocalModel(det_calls, expected_actions, det_valid,
                                 det_quality),
               !.n_det = @ + 1]
  /\ UNCHANGED <<r, cm, f, sm>>

\* a fallback that prefers the deterministic set
Selection_DetFirst(candidates, local, local_calls, det_calls, tools, query, expected) ==
  IF candidates # <<>>
  THEN LET best == BestCandidate(candidates, tools, query, expected)
       IN [best_name |-> best[1], chosen_calls |-> best[2],
           confidence |-> RMax(local.confidence.v, FloorOf(best[1]))]
  ELSE [best_name |-> "",
        chosen_calls |-> IF det_calls # <<>> THEN det_calls
                         ELSE local_calls,
        confidence |-> local.confidence.v]

\* src/main.py:930-953: the selection among `candidates`
Selection(candidates, local, local_calls, det_calls, tools, query, expected) ==
  IF candidates # <<>>
  THEN LET best == BestCandidate(candidates, tools, query, expected)
       IN [best_name |-> best[1], chosen_calls |-> best[2],
           confidence |-> RMax(local.confidence.v, FloorOf(best[1]))]
  ELSE [best_name |-> "",
        chosen_calls |-> IF local_calls # <<>> THEN local_calls
                         ELSE det_calls,
        confidence |-> local.confidence.v]

\* src/main.py:913-953 for one behaviour of the local tier; `attempts` is the
\* number of generate_cactus calls made
EscalateCore(env, attempts) ==
  \E res \in {generate_cactus(env)} :
  \E local \in {IF res.raised THEN LocalResult(<<>>, JNum(R0), JNum(R0))
                ELSE res} :
  \E local_calls \in {_dedupe_calls(local.function_calls)} :
  \E local_valid \in {IF local_calls # <<>>
                      THEN _validate(local_calls, h.tools) ELSE FALSE} :
  \E candidates \in {Candidates(h.det_calls, h.det_valid, local_calls,
                                local_valid)} :
  \E raises \in {FloatRaises(local.confidence)
                   \/ FloatRaises(local.total_time_ms)} :
  \E sel \in {IF raises
              THEN [best_name |-> "", chosen_calls |-> <<>>,
                    confidence |-> R0]
              ELSE Selection(candidates, local, local_calls, h.det_calls,
                             h.tools, h.user_query, h.expected_actions)} :
    h' = [h EXCEPT
            !.pc = IF raises THEN "raised" ELSE "done",
            !.local_failed = res.raised,
            !.local = local,
            !.local_calls = local_calls,
            !.local_valid = local_valid,
            !.candidates = candidates,
            !.best_name = sel.best_name,
            !.chosen_calls = sel.chosen_calls,
            !.confidence = sel.confidence,
            !.n_full = @ + attempts]

\* a second attempt after a failed one
EscalateWith_Retry(env) ==
  IF generate_cactus(env).raised THEN EscalateCore(env, 2)
  ELSE EscalateCore(env, 1)

\* src/main.py:915-918: one attempt, no retry
EscalateWith(env) == EscalateCore(env, 1)

(***************************************************************************)
(* Inputs                                                                  *)
(***************************************************************************)
\* the longest utterance, in parts
MaxParts == 2

\* Parts of utterances, each with what the extractors return on its text.
SpFind ==
  Span(<<"find", "Bob">>, [NoExt EXCEPT !.query = <<"Bob">>])
SpTimer ==
  Span(<<"set", "a", "timer", "for", "5", "minutes">>,
       [NoExt EXCEPT !.mins = Num(5),
                     !.alarm = [hour |-> Num(5), minute |-> Num(0)]])
SpRemind ==
  Span(<<"remind", "me", "to", "stretch">>, NoExt)
SpTextThe ==
  Span(<<"text", "the", "team">>,
       [NoExt EXCEPT !.recipient = <<"the">>, !.body = <<"team">>])
SpTextHim ==
  Span(<<"text", "him", "hello">>,
       [NoExt EXCEPT !.recipient = <<"him">>, !.body = <<"hello">>])
SpWindy ==
  Span(<<"windy", "in", "Paris">>, [NoExt EXCEPT !.location = <<"Paris">>])
SpHello ==
  Span(<<"hello", "there">>, NoExt)
SpLookup ==
  Span(<<"look", "up", "5">>, [NoExt EXCEPT !.query = <<"5">>])

Spans ==
  {SpFind, SpTimer, SpRemind, SpTextThe, SpTextHim, SpWindy, SpHello,
   SpLookup}

Utterances == UNION {[1..n -> Spans] : n \in 0..MaxParts}

\* Registries
RegAll ==
  <<Tool("get_weather", <<"location">>),
    Tool("set_alarm", <<"hour", "minute">>),
    Tool("send_message", <<"recipient", "message">>),
    Tool("create_reminder", <<"title", "time">>),
    Tool("search_contacts", <<"query">>),
    Tool("play_music", <<"song">>),
    Tool("set_timer", <<"minutes">>)>>

\* get_weather without a required parameter
RegLoose ==
  <<Tool("get_weather", <<>>),
    Tool("send_message", <<"recipient", "message">>),
    Tool("search_contacts", <<"query">>),
    Tool("set_timer", <<"minutes">>)>>

\* send_message with a required parameter the parser never fills
RegStrict ==
  <<Tool("send_message", <<"recipient", "message", "channel">>),
    Tool("search_contacts", <<"query">>),
    Tool("set_timer", <<"minutes">>)>>

Registries == {RegAll, RegLoose, RegStrict}

\* Call lists the local tier returns
TimerElem == ElemCall("set_timer", ArgsDict([minutes |-> Num(5)]))
TheElem ==
  ElemCall("send_message",
           ArgsDict([recipient |-> Str(<<"the">>),
                     message |-> Str(<<"stretch">>)]))
BlankElem ==
  ElemCall("get_weather", ArgsDict([location |-> Str(<<WS>>)]))
HoleElem == ElemCall("set_timer", ArgsDict([minutes |-> Hole]))
BogusElem == ElemCall("open_door", ArgsAbsent)
NullArgsElem == ElemCall("set_timer", ArgsNull)

LocalCallLists ==
  {<<>>, <<TimerElem>>, <<TheElem>>, <<TimerElem, TimerElem>>,
   <<BlankElem>>, <<HoleElem>>, <<BogusElem>>, <<NullArgsElem>>,
   <<ElemString>>}

\* Self-reported confidences
LocalConfidences ==
  {Absent, JNum(<<1, 2>>), JNum(<<19, 20>>), JNum(<<3, 2>>),
   JNum(<<-1, 2>>), JNull, JText}

\* the call lists that come with every self-reported confidence
ProbedCallLists == {<<>>, <<TimerElem>>, <<TheElem>>}

Payloads ==
  {Payload(FALSE, "object", FcList(cs), JNum(<<3, 1>>), c) :
     cs \in ProbedCallLists, c \in LocalConfidences}
  \cup {Payload(FALSE, "object", FcList(cs), JNum(<<3, 1>>), JNum(<<1, 2>>)) :
          cs \in LocalCallLists}
  \cup {Payload(TRUE, "object", FcAbsent, Absent, Absent),
        Payload(FALSE, "array", FcAbsent, Absent, Absent),
        Payload(FALSE, "object", FcAbsent, Absent, Absent),
        Payload(FALSE, "object", FcNull, JNum(<<3, 1>>), JNum(<<1, 2>>)),
        Payload(FALSE, "object", FcNumber, JNum(<<3, 1>>), JNum(<<1, 2>>)),
        Payload(FALSE, "object", FcList(<<TimerElem>>), JNull,
                JNum(<<1, 2>>))}

\* Behaviours of the local tier during one call
TierBehaviours ==
  {Tier(TRUE, TRUE, TRUE, FALSE, p) : p \in Payloads}
  \cup {Tier(FALSE, FALSE, TRUE, FALSE, NoPayload),   \* cactus_init raises
        Tier(TRUE, FALSE, FALSE, FALSE, NoPayload),   \* reset and init raise
        Tier(TRUE, TRUE, FALSE, FALSE, NoPayload),    \* reset raises, init ok
        Tier(TRUE, TRUE, TRUE, TRUE, NoPayload)}      \* cactus_complete raises

(***************************************************************************)
(* One generate_hybrid request                                             *)
(***************************************************************************)
\* src/main.py:913-953
Escalate ==
  /\ h.pc = "parsed"
  /\ h.need_local_model
  /\ \E env \in TierBehaviours : EscalateWith(env)
  /\ UNCHANGED <<r, cm, f, sm>>

\* src/main.py:954-959
Probe ==
  /\ h.pc = "parsed"
  /\ ~h.need_local_model
  /\ \E env \in TierBehaviours :
       LET probe == _ondevice_probe_ms(env)
       IN h' = [h EXCEPT
                  !.pc = IF probe.raised THEN "raised" ELSE "done",
                  !.local_failed = probe.raised,
                  !.chosen_calls = IF probe.raised THEN <<>> ELSE h.det_calls,
                  !.confidence =
                     IF probe.raised THEN R0
                     ELSE RMax(ProbeConfidence, h.det_quality),
                  !.n_probe = @ + 1]
  /\ UNCHANGED <<r, cm, f, sm>>

(***************************************************************************)
(* _deterministic_candidate (src/meeting_autopilot_app.py:250-285)         *)
(***************************************************************************)
MEETING_TOOLS ==
  <<Tool("create_reminder", <<"title", "time">>),
    Tool("send_message", <<"recipient", "message">>),
    Tool("set_timer", <<"minutes">>),
    Tool("search_contacts", <<"query">>),
    Tool("set_alarm", <<"hour", "minute">>),
    Tool("get_weather", <<"location">>)>>

DEFAULT_CONFIDENCE_THRESHOLD == <<55, 100>>

\* the loop of lines 257-264: a part that holds an action but gives no call
RECURSIVE UnparsedAction(_, _, _)
UnparsedAction(parts, available, context) ==
  IF parts = <<>> THEN FALSE
  ELSE LET call == _parse_part(Head(parts), available, context)
       IN \/ call = NoCall /\ _contains_action(Head(parts).toks)
          \/ UnparsedAction(Tail(parts), available,
                            ContextAfter(call, context))

DetConfidence(n_calls, n_parts, valid, unparsed_action) ==
  LET coverage == IF n_parts > 0 THEN Rat(n_calls, Max2(n_parts, 1)) ELSE R0
      base == RAdd(RAdd(<<35, 100>>, RMul(<<45, 100>>, coverage)),
                   IF valid THEN <<20, 100>> ELSE R0)
      conf == IF n_calls = 0 THEN R0
              ELSE IF unparsed_action THEN RMul(base, <<55, 100>>)
              ELSE base
  IN RMax(R0, RMin(<<98, 100>>, conf))

_deterministic_candidate(parts) ==
  LET available == RegisteredNames(MEETING_TOOLS)
      calls == ParseParts(parts, available, [last_contact |-> <<>>])
      unparsed_action == UnparsedAction(parts, available,
                                        [last_contact |-> <<>>])
      valid == IF calls # <<>> THEN _validate(calls, MEETING_TOOLS) ELSE FALSE
  IN [calls |-> calls, parts |-> parts, valid |-> valid,
      unparsed_action |-> unparsed_action,
      confidence |-> DetConfidence(Len(calls), Len(parts), valid,
                                   unparsed_action)]

(***************************************************************************)
(* _route_plan (src/meeting_autopilot_app.py:288-463)                      *)
(***************************************************************************)
\* round(x, 4), halves away from zero
Round4(x) ==
  LET m == (2 * Abs(x[1]) * 10000 + x[2]) \div (2 * x[2])
  IN Rat(IF x[1] < 0 THEN -m ELSE m, 10000)

Stage(id, confidence, status, selected, details) ==
  [id |-> id, confidence |-> confidence, status |-> status,
   selected |-> selected, details |-> details]

\* lines 297-326
InitialStages(deterministic, allow_cloud) ==
  <<Stage("deterministic-local", JNum(Round4(deterministic.confidence)),
          IF deterministic.calls # <<>> THEN "candidate" ELSE "empty", FALSE,
          IF deterministic.calls # <<>> /\ deterministic.valid
               /\ ~deterministic.unparsed_action
          THEN <<"Covered all detected actions.">>
          ELSE <<"Partial or uncertain parse.">>),
    Stage("functiongemma-local", JNull, "not-run", FALSE,
          <<"Executed only when deterministic confidence is low.">>),
    Stage("gemini-cloud", JNull,
          IF ~allow_cloud THEN "disabled" ELSE "not-run", FALSE,
          <<"Escalates when local confidence is below threshold.">>)>>

\* lines 334-339
\* a deterministic candidate that is never taken as ready
DeterministicReady_Never(deterministic, confidence_threshold) == FALSE

\* lines 334-339
DeterministicReady(deterministic, confidence_threshold) ==
  /\ deterministic.calls # <<>>
  /\ deterministic.valid
  /\ ~deterministic.unparsed_action
  /\ RLe(confidence_threshold, deterministic.confidence)

\* a stage that is flagged without its status being set
Select_FlagOnly(stages, i) == [stages EXCEPT ![i].selected = TRUE]

Select(stages, i) ==
  [stages EXCEPT ![i].selected = TRUE, ![i].status = "selected"]

SetStatus(stages, i, status) == [stages EXCEPT ![i].status = status]

RouteStart0 ==
  [pc |-> "start", parts |-> <<>>, confidence_threshold |-> R0,
   allow_cloud |-> FALSE,
   deterministic |-> _deterministic_candidate(<<>>), stages |-> <<>>,
   selected_stage |-> "", selected_calls |-> <<>>,
   selected_confidence |-> R0, selected_source |-> "", reason |-> "",
   local_failed |-> FALSE, local_calls |-> <<>>, local_valid |-> FALSE,
   local_confidence |-> R0,
   cloud_failed |-> FALSE, cloud_error |-> <<>>, cloud_returned |-> <<>>,
   n_det |-> 0, n_local |-> 0, n_cloud |-> 0]

\* lines 293-346: the deterministic candidate and the early exit
RouteDeterministic ==
  /\ r.pc = "start"
  /\ LET deterministic == _deterministic_candidate(r.parts)
         stages == InitialStages(deterministic, r.allow_cloud)
         ready == DeterministicReady(deterministic, r.confidence_threshold)
         base == [r EXCEPT
                    !.deterministic = deterministic,
                    !.selected_stage = "deterministic-local",
                    !.selected_calls = deterministic.calls,
                    !.selected_confidence = deterministic.confidence,
                    !.selected_source = "on-device",
                    !.reason = "Deterministic local parser had complete action coverage.",
                    !.n_det = @ + 1]
     IN r' = IF ready
             THEN [base EXCEPT
                     !.pc = "done",
                     !.stages =
                        LET s1 == SetStatus(Select(stages, 1), 2, "skipped")
                        IN IF r.allow_cloud THEN SetStatus(s1, 3, "skipped")
                           ELSE s1]
             ELSE [base EXCEPT !.pc = "local", !.stages = stages]
  /\ UNCHANGED <<h, cm, f, sm>>

\* float(local.get("confidence", 0.0) or 0.0)
LocalConfidenceOf(j) == IF j.k = "num" THEN j.v ELSE R0

\* a fallback that takes the local calls without their validity
FallbackNoCloud_Unchecked(base, local_calls, local_valid, local_confidence) ==
  IF local_calls # <<>>
  THEN [base EXCEPT
          !.pc = "done",
          !.selected_stage = "functiongemma-local",
          !.selected_calls = local_calls,
          !.selected_confidence = local_confidence,
          !.selected_source = "on-device",
          !.reason = "Cloud disabled; used best local candidate.",
          !.stages = Select(@, 2)]
  ELSE [base EXCEPT !.pc = "done", !.selected_calls = <<>>]

\* lines 426-448: the cloud is disabled
FallbackNoCloud(base, local_calls, local_valid, local_confidence) ==
  IF local_calls # <<>> /\ local_valid
  THEN [base EXCEPT
          !.pc = "done",
          !.selected_stage = "functiongemma-local",
          !.selected_calls = local_calls,
          !.selected_confidence = local_confidence,
          !.selected_source = "on-device",
          !.reason = "Cloud disabled; used best local candidate.",
          !.stages = Select(@, 2)]
  ELSE IF base.deterministic.calls # <<>> /\ base.deterministic.valid
  THEN [base EXCEPT
          !.pc = "done",
          !.selected_stage = "deterministic-local",
          !.selected_calls = base.deterministic.calls,
          !.selected_confidence = base.deterministic.confidence,
          !.selected_source = "on-device",
          !.reason = "Cloud disabled; deterministic fallback used.",
          !.stages = Select(@, 1)]
  ELSE [base EXCEPT
          !.pc = "done",
          !.selected_stage = "deterministic-local",
          !.selected_calls = <<>>,
          !.selected_confidence =
             RMax(local_confidence, base.deterministic.confidence),
          !.selected_source = "on-device",
          !.reason = "Cloud disabled and no confident local plan found."]

\* lines 348-368 and 426-448 for one behaviour of the local tier
RouteLocalWith(env) ==
  \E local \in {generate_cactus(env)} :
  \E local_calls \in {local.function_calls} :
  \E raises \in {local.raised \/ local.confidence.k = "str"} :
  \E local_confidence \in {LocalConfidenceOf(local.confidence)} :
  \E local_valid \in {IF local_calls # <<>>
                      THEN _validate(local_calls, MEETING_TOOLS)
                      ELSE FALSE} :
  \E base \in {[r EXCEPT
                  !.n_local = @ + 1,
                  !.local_failed = local.raised,
                  !.local_calls = local_calls,
                  !.local_valid = local_valid,
                  !.local_confidence = local_confidence,
                  !.stages =
                     [@ EXCEPT
                        ![2].confidence = JNum(Round4(local_confidence)),
                        ![2].status = IF local_calls # <<>> THEN "candidate"
                                      ELSE "empty",
                        ![2].details = <<"Local model routing candidate.">>]]} :
    r' = IF raises
         THEN [r EXCEPT !.pc = "raised", !.n_local = @ + 1,
                        !.local_failed = local.raised]
         ELSE IF local_calls # <<>> /\ local_valid
                   /\ RLe(r.confidence_threshold, local_confidence)
         THEN [base EXCEPT
                 !.pc = "done",
                 !.selected_stage = "functiongemma-local",
                 !.selected_calls = local_calls,
                 !.selected_confidence = local_confidence,
                 !.selected_source = "on-device",
                 !.reason = "FunctionGemma confidence cleared threshold.",
                 !.stages =
                    IF r.allow_cloud
                    THEN SetStatus(Select(@, 2), 3, "skipped")
                    ELSE Select(@, 2)]
         ELSE IF r.allow_cloud THEN [base EXCEPT !.pc = "cloud"]
         ELSE FallbackNoCloud(base, local_calls, local_valid,
                              local_confidence)

RouteLocal ==
  /\ r.pc = "local"
  /\ \E env \in TierBehaviours : RouteLocalWith(env)
  /\ UNCHANGED <<h, cm, f, sm>>

\* A behaviour of generate_cloud (src/main.py:827-875): it raises with the
\* text `error`, or returns `calls`.
Cloud(raises, error, calls) ==
  [raises |-> raises, error |-> error, calls |-> calls]

CloudBehaviours ==
  {Cloud(TRUE, <<"google-genai is not installed">>, <<>>),
   Cloud(TRUE, <<>>, <<>>),
   Cloud(FALSE, <<>>, <<>>),
   Cloud(FALSE, <<>>, <<Call("set_timer", [minutes |-> Num(5)])>>),
   Cloud(FALSE, <<>>, <<Call("set_timer", <<>>)>>),
   Cloud(FALSE, <<>>, <<Call("set_timer", [minutes |-> Str(<<"5">>)])>>)}

\* a trace that drops the error text of the failed cloud call
CloudErrorDetails_Drop(stages, cloud_error) == stages

CloudErrorDetails(stages, cloud_error) ==
  IF cloud_error # <<>>
  THEN [stages EXCEPT ![3].details = <<"Cloud error: ">> \o cloud_error]
  ELSE stages

\* lines 369-425 for one behaviour of the cloud tier
RouteCloudWith(cb) ==
  \E cloud_error \in {IF cb.raises THEN cb.error ELSE <<>>} :
  \E cloud_calls \in {IF cb.raises THEN <<>> ELSE cb.calls} :
  \E cloud_valid \in {IF cloud_calls # <<>>
                      THEN _validate(cloud_calls, MEETING_TOOLS)
                      ELSE FALSE} :
  \E cloud_confidence \in {IF cb.raises THEN R0
                           ELSE IF cloud_calls # <<>> /\ cloud_valid
                           THEN <<88, 100>> ELSE <<22, 100>>} :
  \E base \in {[r EXCEPT
                 !.pc = "done",
                 !.n_cloud = @ + 1,
                 !.cloud_failed = cb.raises,
                 !.cloud_error = cloud_error,
                 !.cloud_returned = cloud_calls,
                 !.stages =
                    [@ EXCEPT
                       ![3].confidence = JNum(Round4(cloud_confidence)),
                       ![3].details =
                          IF cloud_valid
                          THEN <<"Cloud returned a valid routed plan.">>
                          ELSE <<"Cloud fallback unavailable or invalid.">>]]} :
     r' = IF cloud_calls # <<>> /\ cloud_valid
          THEN [base EXCEPT
                  !.selected_stage = "gemini-cloud",
                  !.selected_calls = cloud_calls,
                  !.selected_confidence = cloud_confidence,
                  !.selected_source = "cloud",
                  !.reason = "Escalated to cloud due low local confidence.",
                  !.stages = Select(@, 3)]
          ELSE IF r.local_calls # <<>> /\ r.local_valid
          THEN [base EXCEPT
                  !.selected_stage = "functiongemma-local",
                  !.selected_calls = r.local_calls,
                  !.selected_confidence = r.local_confidence,
                  !.selected_source = "on-device",
                  !.reason = "Cloud unavailable; used valid on-device plan.",
                  !.stages =
                     CloudErrorDetails(
                       SetStatus(Select(@, 2), 3, "fallback-failed"),
                       cloud_error)]
          ELSE IF r.deterministic.calls # <<>> /\ r.deterministic.valid
          THEN [base EXCEPT
                  !.selected_stage = "deterministic-local",
                  !.selected_calls = r.deterministic.calls,
                  !.selected_confidence = r.deterministic.confidence,
                  !.selected_source = "on-device",
                  !.reason = "Cloud and local candidate uncertain; using deterministic fallback.",
                  !.stages =
                     CloudErrorDetails(
                       SetStatus(Select(@, 1), 3, "fallback-failed"),
                       cloud_error)]
          ELSE [base EXCEPT
                  !.selected_stage = "deterministic-local",
                  !.selected_calls = <<>>,
                  !.selected_confidence =
                     RMax(r.local_confidence, r.deterministic.confidence),
                  !.selected_source = "on-device",
                  !.reason = "No confident routed actions were found.",
                  !.stages =
                     CloudErrorDetails(SetStatus(@, 3, "fallback-failed"),
                                       cloud_error)]

RouteCloud ==
  /\ r.pc = "cloud"
  /\ \E cb \in CloudBehaviours : RouteCloudWith(cb)
  /\ UNCHANGED <<h, cm, f, sm>>

\* the confidence in the returned result (line 454)
RouteResultConfidence == Round4(r.selected_confidence)

Thresholds == {R0, DEFAULT_CONFIDENCE_THRESHOLD, R1}

(***************************************************************************)
(* Requests: one generate_hybrid call or one _route_plan call              *)
(***************************************************************************)
HybridIdle == [HybridStart EXCEPT !.pc = "idle"]
RouteIdle == [RouteStart0 EXCEPT !.pc = "idle"]

InitHybrid ==
  /\ \E tools \in Registries, parts \in Utterances :
       h = [HybridStart EXCEPT !.tools = tools, !.parts = parts]
  /\ r = RouteIdle

InitRoute ==
  /\ h = HybridIdle
  /\ \E parts \in Utterances, t \in Thresholds, allow_cloud \in BOOLEAN :
       r = [RouteStart0 EXCEPT !.parts = parts, !.confidence_threshold = t,
                               !.allow_cloud = allow_cloud]

(***************************************************************************)
(* The cached model handle shared by concurrent requests                   *)
(* (src/main.py:15-38, 798-801; the Flask server of                        *)
(* src/meeting_autopilot_app.py:673 serves each request on its own thread) *)
(*                                                                         *)
(* cached   - _CACHED_MODEL: 0 for None, else a handle                     *)
(* handles  - number of handles cactus_init has created                    *)
(* pc[t]    - where thread t is inside generate_cactus                     *)
(* model[t] - the local variable `model` of thread t                       *)
(* left[t]  - requests thread t has still to serve                         *)
(* disturbed - a handle was reset or destroyed while another thread's      *)
(*             cactus_complete on it was in progress                       *)
(***************************************************************************)
PureIdle ==
  [pc |-> "idle", op |-> "", calls |-> <<>>, tools |-> <<>>,
   valid |-> FALSE, raw |-> NoPayload,
   result |-> LocalResult(<<>>, JNum(R0), JNum(R0)),
   out |-> <<>>, twice |-> <<>>,
   part |-> Span(<<>>, NoExt), available |-> {},
   context |-> [last_contact |-> <<>>], call |-> NoCall,
   query |-> <<>>, expected |-> 0, score |-> 0,
   split |-> [raised |-> FALSE, parts |-> <<>>],
   after |-> [last_contact |-> <<>>],
   time_text |-> [hour |-> -1, minute |-> -1, ampm |-> "", word |-> -1,
                  special |-> ""]]

NThreads == 2
MaxRequests == 2

Threads == 1..NThreads

SharedIdle ==
  [pc |-> [t \in Threads |-> "off"], cached |-> 0, handles |-> 0,
   model |-> [t \in Threads |-> 0], left |-> [t \in Threads |-> 0],
   disturbed |-> FALSE]

\* The session metrics (src/meeting_autopilot_app.py:128-129, 481-526):
\* the value of sm while no request updates them is MetricsIdle.
Sessions == {"s1", "s2"}

ZeroState ==
  [turns |-> 0, on_device_turns |-> 0, latency_sum_ms |-> 0,
   f1_style_sum |-> 0, exact_f1_sum |-> 0, exact_f1_count |-> 0]

\* exact_f1 is -1 for None
UpdateArgs(session_id, source, latency_ms, f1_style, exact_f1) ==
  [session_id |-> session_id, source |-> source, latency_ms |-> latency_ms,
   f1_style |-> f1_style, exact_f1 |-> exact_f1]

\* the calls all requests make together
MaxUpdates == 4

UpdateInputs ==
  {UpdateArgs("s1", "on-device", 1, 1, 1),
   UpdateArgs("s1", "cloud", 1, 1, -1),
   UpdateArgs("s2", "on-device", 1, 1, -1)}

NoArgs == UpdateArgs("", "", 0, 0, -1)
NoTally == [turns |-> 0, on_device |-> 0, exact |-> 0]
NoReturn == [turns |-> 0, on_device_ratio |-> R0]

MetricsIdle ==
  [lock |-> 0, metrics |-> <<>>,
   pc |-> [t \in Threads |-> "off"],
   left |-> 0,
   args |-> [t \in Threads |-> NoArgs],
   read |-> [t \in Threads |-> ZeroState],
   ret |-> [t \in Threads |-> NoReturn],
   issued |-> [s \in Sessions |-> NoTally]]

InitShared ==
  /\ h = HybridIdle
  /\ r = RouteIdle
  /\ sm = MetricsIdle
  /\ cm = [SharedIdle EXCEPT !.pc = [t \in Threads |-> "idle"],
                             !.left = [t \in Threads |-> MaxRequests]]
  /\ f = PureIdle

\* threads other than t that are inside cactus_complete on handle m
DecodingOthers(t, m) ==
  {u \in Threads \ {t} : cm.pc[u] = "decoding" /\ cm.model[u] = m}

\* a request enters generate_cactus (src/main.py:800)
Enter(t) ==
  /\ cm.pc[t] = "idle"
  /\ cm.left[t] > 0
  /\ cm' = [cm EXCEPT !.pc[t] = "get", !.left[t] = @ - 1]
  /\ UNCHANGED <<h, r, f, sm>>

\* src/main.py:30-32: no handle yet, cactus_init
InitModel(t) ==
  /\ cm.pc[t] = "get"
  /\ cm.cached = 0
  /\ \/ cm' = [cm EXCEPT !.pc[t] = "ready", !.handles = @ + 1,
                         !.cached = cm.handles + 1,
                         !.model[t] = cm.handles + 1]
     \/ cm' = [cm EXCEPT !.pc[t] = "idle"]          \* cactus_init raises
  /\ UNCHANGED <<h, r, f, sm>>

\* src/main.py:33-34: cactus_reset on the cached handle returns
ResetModel(t) ==
  /\ cm.pc[t] = "get"
  /\ cm.cached # 0
  /\ cm' = [cm EXCEPT !.pc[t] = "ready", !.model[t] = cm.cached,
                      !.disturbed = @ \/ DecodingOthers(t, cm.cached) # {}]
  /\ UNCHANGED <<h, r, f, sm>>

\* src/main.py:35-37: cactus_reset raises; destroy the handle and init anew
ReinitModel(t) ==
  /\ cm.pc[t] = "get"
  /\ cm.cached # 0
  /\ \/ cm' = [cm EXCEPT !.pc[t] = "ready", !.handles = @ + 1,
                         !.cached = cm.handles + 1,
                         !.model[t] = cm.handles + 1,
                         !.disturbed =
                            @ \/ DecodingOthers(t, cm.cached) # {}]
     \/ cm' = [cm EXCEPT !.pc[t] = "idle", !.cached = 0,
                         !.disturbed =
                            @ \/ DecodingOthers(t, cm.cached) # {}]
  /\ UNCHANGED <<h, r, f, sm>>

\* src/main.py:773: cactus_complete starts decoding on `model`
BeginComplete(t) ==
  /\ cm.pc[t] = "ready"
  /\ cm' = [cm EXCEPT !.pc[t] = "decoding"]
  /\ UNCHANGED <<h, r, f, sm>>

\* src/main.py:773-794: cactus_complete returns or raises
EndComplete(t) ==
  /\ cm.pc[t] = "decoding"
  /\ cm' = [cm EXCEPT !.pc[t] = "idle", !.model[t] = 0]
  /\ UNCHANGED <<h, r, f, sm>>

NextShared ==
  \E t \in Threads :
    \/ Enter(t)
    \/ InitModel(t)
    \/ ResetModel(t)
    \/ ReinitModel(t)
    \/ BeginComplete(t)
    \/ EndComplete(t)

SpecShared == InitShared /\ [][NextShared]_vars

(***************************************************************************)
(* Session metrics updated by concurrent requests                          *)
(* (src/meeting_autopilot_app.py:128-129, 481-526)                         *)
(*                                                                         *)
(* sm.lock     - the thread holding _session_lock, 0 when it is free       *)
(* sm.metrics  - _session_metrics: session id -> state                     *)
(* sm.pc[t]    - where thread t is in _update_session_metrics              *)
(* sm.args[t]  - the arguments of its call                                 *)
(* sm.read[t]  - the values its += statements have read                    *)
(* sm.ret[t]   - what its last call returned                               *)
(* sm.issued   - per session, the calls made so far                        *)
(* sm.left     - the calls still to come                                   *)
(*                                                                         *)
(* The statements of lines 503-510 are taken as one read of the counters   *)
(* followed by one write: a += is a load and a store, and no other         *)
(* statement of the program touches _session_metrics.                      *)
(***************************************************************************)
InitMetrics ==
  /\ h = HybridIdle
  /\ r = RouteIdle
  /\ cm = SharedIdle
  /\ f = PureIdle
  /\ sm = [MetricsIdle EXCEPT !.pc = [t \in Threads |-> "idle"],
                              !.left = MaxUpdates]

\* the state of a session, as setdefault would give it
StateOf(metrics, session_id) ==
  IF session_id \in DOMAIN metrics THEN metrics[session_id] ELSE ZeroState

\* a request reaches the call at line 619
CallUpdate(t) ==
  /\ sm.pc[t] = "idle"
  /\ sm.left > 0
  /\ \E args \in UpdateInputs :
       sm' = [sm EXCEPT
                !.pc[t] = "lock",
                !.left = @ - 1,
                !.args[t] = args,
                !.issued[args.session_id] =
                   [turns |-> @.turns + 1,
                    on_device |-> @.on_device
                                  + (IF args.source = "on-device" THEN 1 ELSE 0),
                    exact |-> @.exact + (IF args.exact_f1 # -1 THEN 1 ELSE 0)]]
  /\ UNCHANGED <<h, r, cm, f>>

\* a thread that enters without the lock being free
AcquireSessionLock_NoWait(t) ==
  /\ sm.pc[t] = "lock"
  /\ sm' = [sm EXCEPT !.pc[t] = "load", !.lock = t]
  /\ UNCHANGED <<h, r, cm, f>>

\* with _session_lock: (line 488)
AcquireSessionLock(t) ==
  /\ sm.pc[t] = "lock"
  /\ sm.lock = 0
  /\ sm' = [sm EXCEPT !.pc[t] = "load", !.lock = t]
  /\ UNCHANGED <<h, r, cm, f>>

\* setdefault (lines 489-499) and the reads of lines 503-510
LoadState(t) ==
  /\ sm.pc[t] = "load"
  /\ \E state \in {StateOf(sm.metrics, sm.args[t].session_id)} :
       sm' = [sm EXCEPT
                !.pc[t] = "store",
                !.read[t] = state,
                !.metrics = [s \in DOMAIN @ \cup {sm.args[t].session_id} |->
                               IF s = sm.args[t].session_id THEN state
                               ELSE @[s]]]
  /\ UNCHANGED <<h, r, cm, f>>

\* the writes of lines 503-510
StoreState(t) ==
  /\ sm.pc[t] = "store"
  /\ \E args \in {sm.args[t]}, was \in {sm.read[t]} :
       sm' = [sm EXCEPT
                !.pc[t] = "return",
                !.metrics[args.session_id] =
                   [turns |-> was.turns + 1,
                    latency_sum_ms |-> was.latency_sum_ms + args.latency_ms,
                    f1_style_sum |-> was.f1_style_sum + args.f1_style,
                    on_device_turns |->
                       was.on_device_turns
                       + (IF args.source = "on-device" THEN 1 ELSE 0),
                    exact_f1_sum |->
                       was.exact_f1_sum
                       + (IF args.exact_f1 # -1 THEN args.exact_f1 ELSE 0),
                    exact_f1_count |->
                       was.exact_f1_count
                       + (IF args.exact_f1 # -1 THEN 1 ELSE 0)]]
  /\ UNCHANGED <<h, r, cm, f>>

\* round(x, 1), halves away from zero
Round1(x) ==
  LET m == (2 * Abs(x[1]) * 10 + x[2]) \div (2 * x[2])
  IN Rat(IF x[1] < 0 THEN -m ELSE m, 10)

\* lines 512-526: the summary is built and the lock released
ReturnMetrics(t) ==
  /\ sm.pc[t] = "return"
  /\ \E state \in {sm.metrics[sm.args[t].session_id]} :
     \E turns \in {Max2(state.turns, 1)} :
       sm' = [sm EXCEPT
                !.pc[t] = "idle",
                !.lock = IF @ = t THEN 0 ELSE @,
                !.args[t] = NoArgs,
                !.read[t] = ZeroState,
                !.ret[t] =
                   [turns |-> state.turns,
                    on_device_ratio |->
                       Round1(Rat(state.on_device_turns * 100, turns))]]
  /\ UNCHANGED <<h, r, cm, f>>

NextMetrics ==
  \E t \in Threads :
    \/ CallUpdate(t)
    \/ AcquireSessionLock(t)
    \/ LoadState(t)
    \/ StoreState(t)
    \/ ReturnMetrics(t)

SpecMetrics == InitMetrics /\ [][NextMetrics]_vars

(***************************************************************************)
(* Single applications of _validate and _run_inference                     *)
(***************************************************************************)
MaxCalls == 2

\* values a required parameter may hold
ParamValues ==
  {None, Str(<<>>), Str(<<WS>>), Str(<<"Bob">>), Num(0), Num(5),
   List(<<>>), List(<<Str(<<"Bob">>)>>)}

ValidateCalls ==
  {Call("search_contacts", [query |-> v]) : v \in ParamValues}
  \cup {Call("search_contacts", <<>>), Call("open_door", <<>>)}

ValidateInputs == UNION {[1..n -> ValidateCalls] : n \in 0..MaxCalls}

\* Spans on which the cues of several capabilities match, each with what
\* the extractors return on its text.
SpSayFind ==
  Span(<<"send", "a", "message", "to", "Bob", "saying", "find", "the",
         "timer">>,
       [NoExt EXCEPT !.query = <<"the", "timer">>, !.recipient = <<"Bob">>,
                     !.body = <<"find", "the", "timer">>])
SpRemindText ==
  Span(<<"remind", "me", "to", "text", "Bob", "at", "5", "pm">>,
       [NoExt EXCEPT !.recipient = <<"Bob">>, !.body = <<"at", "5", "pm">>,
                     !.title = <<"text", "Bob">>,
                     !.time = <<"5", ":", "00", "PM">>,
                     !.alarm = [hour |-> Num(17), minute |-> Num(0)]])
SpWakeTimer ==
  Span(<<"wake", "me", "up", "at", "7", "am", "with", "a", "timer", "for",
         "5", "minutes">>,
       [NoExt EXCEPT !.time = <<"7", ":", "00", "AM">>,
                     !.alarm = [hour |-> Num(7), minute |-> Num(0)],
                     !.mins = Num(5)])
SpWeatherSong ==
  Span(<<"play", "the", "weather", "song", "in", "Paris">>,
       [NoExt EXCEPT !.location = <<"song", "in", "Paris">>,
                     !.song = <<"the", "weather", "song", "in", "Paris">>])
SpRemindTimer ==
  Span(<<"remind", "me", "to", "set", "a", "timer", "for", "5", "minutes">>,
       [NoExt EXCEPT !.alarm = [hour |-> Num(5), minute |-> Num(0)],
                     !.mins = Num(5)])

SpTellWeather ==
  Span(<<"tell", "Bob", "the", "weather", "in", "Paris", "is", "cold">>,
       [NoExt EXCEPT !.recipient = <<"Bob">>,
                     !.body = <<"the", "weather", "in", "Paris", "is", "cold">>,
                     !.location = <<"Paris", "is", "cold">>])

\* a pronoun recipient without a body
SpMessageHer ==
  Span(<<"message", "her">>, [NoExt EXCEPT !.recipient = <<"her">>])

CueSpans ==
  {SpSayFind, SpRemindText, SpWakeTimer, SpWeatherSong, SpRemindTimer,
   SpTellWeather, SpTextHim, SpMessageHer, SpHello}

ParseContexts == {[last_contact |-> <<>>], [last_contact |-> <<"Bob">>]}

\* the longest list given to _dedupe_calls
MaxDedupe == 3

\* calls that differ in the tool, in one value, in the type of one value,
\* or in having arguments at all
DedupeCalls ==
  {Call("set_timer", [minutes |-> Num(5)]),
   Call("set_timer", [minutes |-> Str(<<"5">>)]),
   Call("set_timer", [minutes |-> Num(10)]),
   Call("set_timer", <<>>),
   Call("set_alarm", [hour |-> Num(5), minute |-> Num(10)]),
   Call("set_alarm", [hour |-> Num(10), minute |-> Num(5)])}

DedupeInputs == UNION {[1..n -> DedupeCalls] : n \in 0..MaxDedupe}

(***************************************************************************)
(* _parse_alarm_args (src/main.py:424-470)                                 *)
(*                                                                         *)
(* A time phrase "at H", "at H:MM", "at H pm", "at H:MM pm", "at seven",   *)
(* "at seven pm", "at noon", "at midnight" is held by what it is made of:  *)
(* hour and minute are the numerals (-1 when absent), word the value of a  *)
(* number word (-1 when absent), ampm "A", "P" or "".                      *)
(***************************************************************************)
TimeText(hour, minute, ampm, word, special) ==
  [hour |-> hour, minute |-> minute, ampm |-> ampm, word |-> word,
   special |-> special]

NoTime == [hour |-> -1, minute |-> -1, ampm |-> ""]

\* _parse_ampm_time (src/main.py:424-445)
_parse_ampm_time(text) ==
  IF text.hour >= 0 /\ text.ampm # ""
  THEN [hour |-> text.hour,
        minute |-> IF text.minute >= 0 THEN text.minute ELSE 0,
        ampm |-> text.ampm]
  ELSE IF text.word >= 0 /\ text.ampm # ""
  THEN [hour |-> IF text.word = 0 THEN 12 ELSE text.word, minute |-> 0,
        ampm |-> text.ampm]
  ELSE IF text.special = "noon" THEN [hour |-> 12, minute |-> 0, ampm |-> "P"]
  ELSE IF text.special = "midnight"
  THEN [hour |-> 12, minute |-> 0, ampm |-> "A"]
  ELSE NoTime

\* _parse_alarm_args (src/main.py:448-470): the arguments, <<>> for None
_parse_alarm_args(text) ==
  LET t == _parse_ampm_time(text)
      bare_minute == IF text.minute \in 0..59 THEN text.minute ELSE 0
  IN IF t # NoTime
     THEN LET hour == IF t.ampm = "A" /\ t.hour = 12 THEN 0
                      ELSE IF t.ampm = "P" /\ t.hour < 12 THEN t.hour + 12
                      ELSE t.hour
          IN [hour |-> Num(Abs(hour)), minute |-> Num(Abs(t.minute))]
     ELSE IF text.hour \in 0..23 /\ text.minute \in 0..59
     THEN [hour |-> Num(text.hour), minute |-> Num(text.minute)]
     ELSE IF text.hour \in 0..23
     THEN [hour |-> Num(text.hour), minute |-> Num(bare_minute)]
     ELSE IF text.hour < 0 /\ text.word >= 0
     THEN [hour |-> Num(text.word), minute |-> Num(0)]
     ELSE <<>>

\* the numerals \d{1,2} and \d{2} can hold
TwoDigits == 0..99
\* zero .. twelve, the number words of the two word patterns
HourWords == 0..12

TimeTexts ==
  {TimeText(hour, minute, ampm, -1, "") :
     hour \in TwoDigits, minute \in {-1} \cup TwoDigits,
     ampm \in {"", "A", "P"}}
  \cup {TimeText(-1, -1, ampm, word, "") :
          word \in HourWords, ampm \in {"", "A", "P"}}
  \cup {TimeText(-1, -1, "", -1, special) :
          special \in {"", "noon", "midnight"}}

(***************************************************************************)
(* _split_actions (src/main.py:401-421)                                    *)
(***************************************************************************)
\* the delimiters of the two re.split calls, as lower-case token phrases
ChunkDelimiters == {<<",">>, <<";">>}
PieceDelimiters ==
  {<<"and">>, <<"then">>, <<"also">>, <<"plus">>, <<"after", "that">>,
   <<"next">>, <<"&">>}

\* the delimiter of `words` that starts at position i of toks, <<>> if none
DelimiterAt(toks, i, words) ==
  LET hits == {w \in words : /\ i + Len(w) - 1 <= Len(toks)
                              /\ Lower(SubSeq(toks, i, i + Len(w) - 1)) = w}
  IN IF hits = {} THEN <<>> ELSE CHOOSE w \in hits : TRUE

\* re.split(pattern, text), with cur the piece read so far
RECURSIVE SplitFrom(_, _, _, _, _)
SplitFrom(toks, i, cur, acc, words) ==
  IF i > Len(toks) THEN Append(acc, cur)
  ELSE LET d == DelimiterAt(toks, i, words)
       IN IF d # <<>>
          THEN SplitFrom(toks, i + Len(d), <<>>, Append(acc, cur), words)
          ELSE SplitFrom(toks, i + 1, Append(cur, toks[i]), acc, words)

\* [p.strip() for p in re.split(...) if p and p.strip()]
StrippedPieces(toks, words) ==
  LET all == SplitFrom(toks, 1, <<>>, <<>>, words)
      stripped == [i \in 1..Len(all) |-> Strip(all[i])]
  IN SelectSeq(stripped, LAMBDA piece : piece # <<>>)

\* _MESSAGE_MARKER_RE.search(text) (src/main.py:382)
_MESSAGE_MARKER_RE(toks) ==
  AnyInText({<<"saying">>, <<"to", "say">>, <<"that", "says">>,
             <<"saying", "that">>, <<"say">>}, Lower(toks))

\* every piece after the first starts a span of its own
RECURSIVE MergeFrom_SplitAll(_, _, _, _)
MergeFrom_SplitAll(segments, i, current, parts) ==
  IF i > Len(segments) THEN Append(parts, Strip(current))
  ELSE MergeFrom_SplitAll(segments, i + 1, segments[i],
                          Append(parts, Strip(current)))

\* the loop over segments[1:] (src/main.py:409-420)
RECURSIVE MergeFrom(_, _, _, _)
MergeFrom(segments, i, current, parts) ==
  IF i > Len(segments) THEN Append(parts, Strip(current))
  ELSE LET seg == segments[i]
       IN IF _MESSAGE_MARKER_RE(current) /\ ~_contains_action(seg)
          THEN MergeFrom(segments, i + 1, current \o <<"and">> \o seg, parts)
          ELSE IF _contains_action(seg)
          THEN MergeFrom(segments, i + 1, seg, Append(parts, Strip(current)))
          ELSE MergeFrom(segments, i + 1, current \o <<"and">> \o seg, parts)

\* the spans of the chunks from the i-th on; segments[0] of a chunk that
\* holds nothing but conjunctions raises IndexError
RECURSIVE SplitChunksFrom(_, _, _)
SplitChunksFrom(comma_parts, i, parts) ==
  IF i > Len(comma_parts) THEN [raised |-> FALSE, parts |-> parts]
  ELSE LET segments == StrippedPieces(comma_parts[i], PieceDelimiters)
       IN IF segments = <<>> THEN [raised |-> TRUE, parts |-> <<>>]
          ELSE IF Len(segments) = 1
          THEN SplitChunksFrom(comma_parts, i + 1, Append(parts, segments[1]))
          ELSE SplitChunksFrom(comma_parts, i + 1,
                               MergeFrom(segments, 2, segments[1], parts))

_split_actions(query) ==
  LET res == SplitChunksFrom(StrippedPieces(query, ChunkDelimiters), 1, <<>>)
  IN IF ~res.raised /\ res.parts = <<>>
     THEN [raised |-> FALSE, parts |-> <<Strip(query)>>]
     ELSE res

\* the longest utterance given to _split_actions, in tokens
MaxWords == 5

\* an action word, a plain word, a body marker, two conjunctions, a comma
\* and a run of white space
SplitTokens == {"play", "hi", "saying", "and", "Then", ",", WS}

SplitInputs == UNION {[1..n -> SplitTokens] : n \in 0..MaxWords}

\* one value of every kind the normalizer tells apart: numeric string,
\* negative numeric string, numeric string with punctuation, number,
\* negative number, one-element lists, empty list, ISO timestamp, plain
\* string, string with trailing punctuation, title with a prefix
CleanValues ==
  {Str(<<"5">>), Str(<<"-", "5">>), Str(<<"5", ".">>), Num(5), Num(-5),
   List(<<Str(<<"Bob">>)>>), List(<<Str(<<"5">>)>>), List(<<Num(5)>>),
   List(<<>>), Str(<<IsoTok>>), Str(<<"Bob">>), Str(<<"Bob", "!">>),
   Str(<<"remind", "me", "to", "call">>)}

CleanCallsIn ==
  {Call("set_alarm", [hour |-> v]) : v \in CleanValues}
  \cup {Call("set_alarm", [minute |-> v]) : v \in CleanValues}
  \cup {Call("set_timer", [minutes |-> v]) : v \in CleanValues}
  \cup {Call("search_contacts", [query |-> v]) : v \in CleanValues}
  \cup {Call("create_reminder", [title |-> v]) : v \in CleanValues}

CleanInputs ==
  {<<>>} \cup {<<c>> : c \in CleanCallsIn}
  \cup {<<Call("set_timer", [minutes |-> Str(<<"5">>)]), c>> :
          c \in CleanCallsIn}

\* candidate sets, utterances and expected counts given to _candidate_score
ScoreCalls ==
  {Call("send_message",
        [recipient |-> Str(<<"Bob">>),
         message |-> Str(<<"got", "your", "text", "message">>)]),
   Call("send_message",
        [recipient |-> Str(<<"Bob">>),
         message |-> Str(<<"set", "a", "timer", "and", "play", "jazz">>)]),
   Call("send_message",
        [recipient |-> Str(<<"the">>), message |-> Str(<<"hi">>)]),
   Call("send_message",
        [recipient |-> Str(<<"bob@x.com">>), message |-> Str(<<"hi">>)]),
   Call("set_timer", [minutes |-> Num(5)]),
   Call("set_timer", [minutes |-> Num(10)])}

ScoreInputs == UNION {[1..n -> ScoreCalls] : n \in 0..MaxCalls}

ScoreQueries ==
  {<<"text", "Bob", "saying", "got", "your", "text", "message">>,
   <<"Set", "a", "timer", "for", "5", "minutes">>,
   <<"tell", "Bob", "to", "set", "a", "timer", "and", "play", "jazz">>}

ScoreExpected == 1..MaxCalls

InitPure ==
  /\ h = HybridIdle
  /\ r = RouteIdle
  /\ sm = MetricsIdle
  /\ cm = SharedIdle
  /\ \/ \E calls \in ValidateInputs :
          f = [PureIdle EXCEPT !.pc = "call", !.op = "_validate",
                               !.calls = calls, !.tools = RegAll]
     \/ \E raw \in Payloads :
          f = [PureIdle EXCEPT !.pc = "call", !.op = "_run_inference",
                               !.raw = raw]
     \/ \E calls \in DedupeInputs :
          f = [PureIdle EXCEPT !.pc = "call", !.op = "_dedupe_calls",
                               !.calls = calls]
     \/ \E part \in CueSpans, available \in SUBSET ToolNames,
           context \in ParseContexts :
          f = [PureIdle EXCEPT !.pc = "call", !.op = "_parse_part",
                               !.part = part, !.available = available,
                               !.context = context]
     \/ \E calls \in CleanInputs :
          f = [PureIdle EXCEPT !.pc = "call", !.op = "_clean_calls",
                               !.calls = calls]
     \/ \E text \in TimeTexts :
          f = [PureIdle EXCEPT !.pc = "call", !.op = "set_alarm",
                               !.time_text = text]
     \/ \E query \in SplitInputs :
          f = [PureIdle EXCEPT !.pc = "call", !.op = "_split_actions",
                               !.query = query]
     \/ \E calls \in ScoreInputs, tools \in {RegAll, RegStrict},
           query \in ScoreQueries, expected \in ScoreExpected :
          f = [PureIdle EXCEPT !.pc = "call", !.op = "_candidate_score",
                               !.calls = calls, !.tools = tools,
                               !.query = query, !.expected = expected]

ApplyValidate ==
  /\ f.pc = "call"
  /\ f.op = "_validate"
  /\ f' = [f EXCEPT !.pc = "returned", !.valid = _validate(f.calls, f.tools)]
  /\ UNCHANGED <<h, r, cm, sm>>

\* _run_inference on the text cactus_complete returned
ApplyRunInference ==
  /\ f.pc = "call"
  /\ f.op = "_run_inference"
  /\ \E res \in {ParsePayload(f.raw)} :
       f' = [f EXCEPT !.pc = IF res.raised THEN "raised" ELSE "returned",
                      !.result = res]
  /\ UNCHANGED <<h, r, cm, sm>>

\* _dedupe_calls on a call list
ApplyDedupe ==
  /\ f.pc = "call"
  /\ f.op = "_dedupe_calls"
  /\ f' = [f EXCEPT !.pc = "returned", !.out = _dedupe_calls(f.calls)]
  /\ UNCHANGED <<h, r, cm, sm>>

\* _dedupe_calls on what _dedupe_calls returned
ApplyDedupeAgain ==
  /\ f.pc = "returned"
  /\ f.op = "_dedupe_calls"
  /\ f' = [f EXCEPT !.pc = "twice", !.twice = _dedupe_calls(f.out)]
  /\ UNCHANGED <<h, r, cm, sm>>

\* _parse_part on one span
ApplyParsePart ==
  /\ f.pc = "call"
  /\ f.op = "_parse_part"
  /\ \E call \in {_parse_part(f.part, f.available, f.context)} :
       f' = [f EXCEPT !.pc = "returned",
                      !.call = call,
                      !.after = ContextAfter(call, f.context)]
  /\ UNCHANGED <<h, r, cm, sm>>

\* _candidate_score on one candidate set
ApplyCandidateScore ==
  /\ f.pc = "call"
  /\ f.op = "_candidate_score"
  /\ f' = [f EXCEPT !.pc = "returned",
                    !.score = _candidate_score(f.calls, f.tools, f.query,
                                               f.expected)]
  /\ UNCHANGED <<h, r, cm, sm>>

\* _split_actions on one utterance
ApplySplitActions ==
  /\ f.pc = "call"
  /\ f.op = "_split_actions"
  /\ \E res \in {_split_actions(f.query)} :
       f' = [f EXCEPT !.pc = IF res.raised THEN "raised" ELSE "returned",
                      !.split = res]
  /\ UNCHANGED <<h, r, cm, sm>>

\* the set_alarm branch of _parse_part on a span with an alarm cue
\* (src/main.py:741-744)
ApplySetAlarm ==
  /\ f.pc = "call"
  /\ f.op = "set_alarm"
  /\ \E tm \in {_parse_alarm_args(f.time_text)} :
       f' = [f EXCEPT !.pc = "returned",
                      !.call = IF tm # <<>> THEN Call("set_alarm", tm)
                               ELSE NoCall]
  /\ UNCHANGED <<h, r, cm, sm>>

\* _clean_calls on a call list
ApplyCleanCalls ==
  /\ f.pc = "call"
  /\ f.op = "_clean_calls"
  /\ \E out \in {CleanCalls(f.calls)} :
       f' = [f EXCEPT
               !.pc = IF \E i \in 1..Len(out) : ArgsRaise(out[i].arguments)
                      THEN "raised" ELSE "returned",
               !.out = out]
  /\ UNCHANGED <<h, r, cm, sm>>

\* _clean_calls on what _clean_calls returned
ApplyCleanAgain ==
  /\ f.pc = "returned"
  /\ f.op = "_clean_calls"
  /\ f' = [f EXCEPT !.pc = "twice", !.twice = CleanCalls(f.out)]
  /\ UNCHANGED <<h, r, cm, sm>>

NextPure ==
  \/ ApplyValidate
  \/ ApplyRunInference
  \/ ApplyDedupe
  \/ ApplyDedupeAgain
  \/ ApplyParsePart
  \/ ApplyCandidateScore
  \/ ApplySplitActions
  \/ ApplySetAlarm
  \/ ApplyCleanCalls
  \/ ApplyCleanAgain

SpecPure == InitPure /\ [][NextPure]_vars

(***************************************************************************)
(* One request                                                             *)
(***************************************************************************)
Init ==
  /\ InitHybrid \/ InitRoute
  /\ cm = SharedIdle
  /\ f = PureIdle
  /\ sm = MetricsIdle

Next ==
  \/ Deterministic
  \/ Escalate
  \/ Probe
  \/ RouteDeterministic
  \/ RouteLocal
  \/ RouteCloud

Spec == Init /\ [][Next]_vars

(***************************************************************************)
(* Properties                                                              *)
(***************************************************************************)
HybridReturned == h.pc = "done"
HybridEnded == h.pc \in {"done", "raised"}
RouteReturned == r.pc = "done"
RouteEnded == r.pc \in {"done", "raised"}

InUnit(x) == RLe(R0, x) /\ RLe(x, R1)

\* the condition of the specification for escalating, computed afresh from
\* the deduplicated deterministic set
EscalationCondition ==
  \/ h.det_calls = <<>>
  \/ Len(h.det_calls) < h.expected_actions
  \/ /\ h.det_calls # <<>>
     /\ \/ ~_validate(h.det_calls, h.tools)
        \/ RLt(_deterministic_quality(h.det_calls, h.tools, h.user_query),
               QualityFloor)

\* C1: generate_hybrid invokes the full local inference tier if and only if
\* the deduplicated deterministic set is empty, or has fewer calls than the
\* expected-action count, or is non-empty but invalid or of quality below
\* 0.45; a valid set of quality >= 0.45 with as many calls as expected
\* actions never escalates.
C1_EscalateIff ==
  HybridEnded =>
    /\ (h.n_full >= 1) <=> EscalationCondition
    /\ (/\ _validate(h.det_calls, h.tools)
        /\ RLe(QualityFloor,
               _deterministic_quality(h.det_calls, h.tools, h.user_query))
        /\ Len(h.det_calls) = h.expected_actions)
       => h.n_full = 0

\* escalation caused by the call count alone: a valid set of good quality
\* with fewer calls than expected actions
C1_Witness ==
  /\ HybridReturned
  /\ h.n_full = 1
  /\ h.det_calls # <<>>
  /\ h.det_valid
  /\ RLe(QualityFloor, h.det_quality)
  /\ Len(h.det_calls) < h.expected_actions

\* C2: every generate_hybrid request returns a plan and never raises,
\* whatever the local tier does, on the escalation path and on the probe path.
C2_NeverRaises == h.pc # "raised"

\* a send_message call whose recipient is "the"
IsTheCall(call) ==
  /\ call.name = "send_message"
  /\ "recipient" \in DOMAIN call.arguments
  /\ Lower(Strip(StrOf(call.arguments["recipient"]))) = <<"the">>

HasTheCall(calls) == \E i \in 1..Len(calls) : IsTheCall(calls[i])

\* C3: on escalation, a candidate set holding a send_message call with
\* recipient "the" is never the selected plan while the pool holds a valid
\* non-empty candidate without such a call.
C3_TheNeverSelected ==
  (/\ HybridReturned
   /\ h.n_full = 1
   /\ \E i \in 1..Len(h.candidates) : ~HasTheCall(h.candidates[i][2]))
  => ~HasTheCall(h.chosen_calls)

\* non-empty as the specification defines it: a non-blank string, a
\* non-empty list, or a present number
IsNonEmptyValue(val) ==
  \/ val.k = "num"
  \/ val.k = "str" /\ Strip(val.s) # <<>>
  \/ val.k = "list" /\ val.items # <<>>

SpecValid(calls, tools) ==
  \A i \in 1..Len(calls) :
    /\ calls[i].name \in RegisteredNames(tools)
    /\ LET required == RequiredOf(tools, calls[i].name)
       IN \A j \in 1..Len(required) :
            IsNonEmptyValue(Get(calls[i].arguments, required[j]))

\* C4: _validate marks a call list valid if and only if every tool name is
\* registered and every required parameter is present and non-empty (a
\* non-blank string, a non-empty list, or a present number).
C4_ValidIffNonEmpty ==
  (f.op = "_validate" /\ f.pc = "returned")
    => (f.valid <=> SpecValid(f.calls, f.tools))

\* C5: the confidence of every returned result lies in [0, 1], for
\* generate_hybrid and for _route_plan.
C5_ConfidenceInUnit ==
  /\ HybridReturned => InUnit(h.confidence)
  /\ RouteReturned => InUnit(RouteResultConfidence)

\* C6: at most one cactus_complete is in progress on a handle at any time,
\* and no request resets, destroys or re-initialises a handle while another
\* request's cactus_complete on it is in progress.
C6_OneDecodePerHandle ==
  /\ \A t \in Threads, u \in Threads :
       (t # u /\ cm.pc[t] = "decoding" /\ cm.pc[u] = "decoding")
         => cm.model[t] # cm.model[u]
  /\ ~cm.disturbed

\* C7: within one request the deterministic pass runs exactly once and each
\* inference tier is invoked at most once: generate_hybrid issues one full
\* local inference or one probe, never both and never again after a failure;
\* _route_plan calls the local tier at most once and the cloud tier at most
\* once.
C7_OneAttemptPerTier ==
  /\ h.n_det <= 1
  /\ h.n_full + h.n_probe <= 1
  /\ HybridEnded => (h.n_det = 1 /\ h.n_full + h.n_probe = 1)
  /\ r.n_det <= 1
  /\ r.n_local <= 1
  /\ r.n_cloud <= 1
  /\ RouteEnded => r.n_det = 1
  /\ r.n_cloud = 1 => r.n_local = 1

\* the local tier failed during an escalation and the request has returned
C7_Witness ==
  /\ HybridReturned
  /\ h.local_failed
  /\ h.n_full = 1
  /\ h.n_probe = 0

\* C8: when the local inference tier fails or raises, the request is not
\* aborted: the local candidate is an empty set of confidence 0 and
\* arbitration goes on with the deterministic set, in generate_hybrid and in
\* _route_plan.
C8_LocalFailureDegrades ==
  /\ (h.n_full = 1 /\ h.local_failed)
       => /\ HybridReturned
          /\ h.local_calls = <<>>
          /\ h.local.confidence = JNum(R0)
  /\ (r.n_local = 1 /\ r.local_failed)
       => /\ r.pc # "raised"
          /\ r.local_calls = <<>>
          /\ r.local_confidence = R0

IsSuffix(t, s) ==
  Len(t) <= Len(s) /\ SubSeq(s, Len(s) - Len(t) + 1, Len(s)) = t

\* C9: when the cloud tier raises inside _route_plan the request still
\* returns, the cloud stage ends with status fallback-failed and its details
\* carry the error text, whichever fallback is taken.
C9_CloudFailureRecorded ==
  r.cloud_failed =>
    /\ RouteReturned
    /\ r.stages[3].status = "fallback-failed"
    /\ ~r.stages[3].selected
    /\ IsSuffix(r.cloud_error, r.stages[3].details)

\* the cloud raised with an error text and the empty plan was returned
C9_Witness ==
  /\ RouteReturned
  /\ r.cloud_failed
  /\ r.cloud_error # <<>>
  /\ r.selected_calls = <<>>
  /\ r.stages[3].details = <<"Cloud error: ">> \o r.cloud_error

\* the call list a well-formed payload describes
ParsedCalls(raw) ==
  LET data == _sanitize(raw)
  IN [i \in 1..Len(data.fc.items) |-> CleanElem(data.fc.items[i])]

\* C10: for every raw payload _run_inference returns the parsed call list or
\* an empty call list; no parse or structure failure escapes it.
C10_NoParseFailureEscapes ==
  (f.op = "_run_inference" /\ f.pc # "call")
    => /\ f.pc = "returned"
       /\ f.result.function_calls \in {<<>>, ParsedCalls(f.raw)}

TraceStatuses ==
  {"not-run", "candidate", "selected", "skipped", "empty", "fallback-failed"}

\* C11: in every result _route_plan returns, each per-tier status of the
\* trace is one of not-run, candidate, selected, skipped, empty,
\* fallback-failed.
C11_TraceStatusesEnumerated ==
  RouteReturned =>
    \A i \in 1..Len(r.stages) : r.stages[i].status \in TraceStatuses

(***************************************************************************)
(* Successive requests of one process: the deterministic pass              *)
(* (src/main.py:883-898, src/meeting_autopilot_app.py:250-264)             *)
(*                                                                         *)
(* f.parts, f.tools - the utterance and registry of the current request    *)
(* f.n       - requests whose deterministic pass has run                   *)
(* f.context - the context dictionary as the last pass left it             *)
(* f.prior   - the context the request before the last one had left        *)
(* f.out     - what the last pass produced                                 *)
(* f.first   - input and output of the first request                       *)
(***************************************************************************)
MaxRuns == 3

\* utterances that resolve a contact, use a pronoun, or do neither
RunUtterances ==
  {<<>>, <<SpFind>>, <<SpTextHim>>, <<SpTimer>>, <<SpFind, SpTextHim>>,
   <<SpTextHim, SpFind>>, <<SpTimer, SpTextHim>>}
RunRegistries == {RegAll, MEETING_TOOLS}

\* a context that outlives its request
NewContext_Kept(previous) == previous

\* context = {"last_contact": None} (src/main.py:889,
\* src/meeting_autopilot_app.py:254): a new dictionary in every request
NewContext(previous) == [last_contact |-> <<>>]

\* the context when the loop over the parts has ended
RECURSIVE ContextAtEnd(_, _, _)
ContextAtEnd(parts, available, context) ==
  IF parts = <<>> THEN context
  ELSE ContextAtEnd(Tail(parts), available,
                    ContextAfter(_parse_part(Head(parts), available, context),
                                 context))

\* src/main.py:883-898 from a given context
DeterministicPass(parts, tools, context) ==
  LET user_query == UserQuery(parts)
      det_calls == _dedupe_calls(ParseParts(parts, AvailableNames(tools),
                                            context))
  IN [det_calls |-> det_calls,
      expected_actions |-> _estimate_expected_actions(parts),
      det_valid |-> IF det_calls # <<>> THEN _validate(det_calls, tools)
                    ELSE FALSE,
      det_quality |-> IF det_calls # <<>>
                      THEN _deterministic_quality(det_calls, tools, user_query)
                      ELSE R0]

NoContext == [last_contact |-> <<>>]

RunsStart ==
  [pc |-> "call", op |-> "deterministic_pass", parts |-> <<>>,
   tools |-> <<>>, n |-> 0, context |-> NoContext, prior |-> NoContext,
   out |-> DeterministicPass(<<>>, <<>>, NoContext),
   first |-> [parts |-> <<>>, tools |-> <<>>,
              out |-> DeterministicPass(<<>>, <<>>, NoContext)]]

InitRuns ==
  /\ h = HybridIdle
  /\ r = RouteIdle
  /\ sm = MetricsIdle
  /\ cm = SharedIdle
  /\ \E parts \in RunUtterances, tools \in RunRegistries :
       f = [RunsStart EXCEPT !.parts = parts, !.tools = tools]

\* the deterministic pass of the current request
RunPass ==
  /\ f.pc = "call"
  /\ f.op = "deterministic_pass"
  /\ \E context \in {NewContext(f.context)} :
     \E out \in {DeterministicPass(f.parts, f.tools, context)} :
       f' = [f EXCEPT
               !.pc = "returned",
               !.n = @ + 1,
               !.prior = f.context,
               !.context = ContextAtEnd(f.parts, AvailableNames(f.tools),
                                        context),
               !.out = out,
               !.first = IF f.n = 0
                         THEN [parts |-> f.parts, tools |-> f.tools,
                               out |-> out]
                         ELSE @]
  /\ UNCHANGED <<h, r, cm, sm>>

\* the next request arrives
NextRun ==
  /\ f.pc = "returned"
  /\ f.op = "deterministic_pass"
  /\ f.n < MaxRuns
  /\ \E parts \in RunUtterances, tools \in RunRegistries :
       f' = [f EXCEPT !.pc = "call", !.parts = parts, !.tools = tools]
  /\ UNCHANGED <<h, r, cm, sm>>

NextRuns == RunPass \/ NextRun

SpecRuns == InitRuns /\ [][NextRuns]_vars

\* C12: two runs of the deterministic pass on the same utterance and the
\* same registry produce the same call set, the same expected-action count
\* and the same quality score, whatever requests were processed in between.
C12_DeterministicPassRepeatable ==
  (/\ f.op = "deterministic_pass"
   /\ f.pc = "returned"
   /\ f.parts = f.first.parts
   /\ f.tools = f.first.tools)
  => f.out = f.first.out

\* a pronoun is parsed again after another request had resolved a contact,
\* and stays unresolved as in the first request
C12_Witness ==
  /\ f.op = "deterministic_pass"
  /\ f.pc = "returned"
  /\ f.n >= 2
  /\ f.parts = f.first.parts
  /\ f.tools = f.first.tools
  /\ f.prior.last_contact # <<>>
  /\ \E i \in 1..Len(f.out.det_calls) :
       /\ f.out.det_calls[i].name = "send_message"
       /\ f.out.det_calls[i].arguments["recipient"] = Str(<<"him">>)

\* duplicates as the specification defines them: the same tool name and the
\* same key-sorted serialization of the arguments
Duplicates(a, b) ==
  a.name = b.name /\ DumpFrom(a.arguments, 1) = DumpFrom(b.arguments, 1)

\* the calls of `calls` from position i on that duplicate no earlier call
RECURSIVE FirstOccurrencesFrom(_, _)
FirstOccurrencesFrom(calls, i) ==
  IF i > Len(calls) THEN <<>>
  ELSE IF \E j \in 1..(i - 1) : Duplicates(calls[j], calls[i])
  THEN FirstOccurrencesFrom(calls, i + 1)
  ELSE <<calls[i]>> \o FirstOccurrencesFrom(calls, i + 1)

\* C13: _dedupe_calls returns the subsequence of its input that keeps, for
\* each (tool name, key-sorted argument serialization) pair, exactly the
\* first occurrence, in the original order.
C13_DedupeKeepsFirstOccurrences ==
  (f.op = "_dedupe_calls" /\ f.pc # "call")
    => f.out = FirstOccurrencesFrom(f.calls, 1)

\* a list where a repeated call is dropped while a call of the same tool
\* with other arguments is kept
C13_Witness ==
  /\ f.op = "_dedupe_calls"
  /\ f.pc = "returned"
  /\ Len(f.calls) = 3
  /\ Len(f.out) = 2
  /\ f.out[1].name = f.out[2].name
  /\ f.calls[1] = f.calls[3]

\* C14: deduplication is idempotent: _dedupe_calls(_dedupe_calls(L)) equals
\* _dedupe_calls(L) for every call list L.
C14_DedupeIdempotent ==
  (f.op = "_dedupe_calls" /\ f.pc = "twice") => f.twice = f.out

\* the second pass ran on a list the first pass had shortened by two calls
C14_Witness ==
  /\ f.op = "_dedupe_calls"
  /\ f.pc = "twice"
  /\ Len(f.calls) = 3
  /\ Len(f.out) = 1
  /\ f.twice = f.out

\* every call of `plan` is the normalised form of a call of `produced`
AllNormalised(plan, produced) ==
  \A i \in 1..Len(plan) : plan[i] \in Range(CleanCalls(produced))

\* C15: every candidate call, whatever tier produced it, passes through the
\* argument normalizer before it is validated, scored or selected: the calls
\* of a returned plan are normalised forms of what the selected tier produced.
C15_NormalisedBeforeSelection ==
  /\ (HybridReturned /\ h.n_probe = 1)
       => AllNormalised(h.chosen_calls,
                        ParseParts(h.parts, AvailableNames(h.tools),
                                   NoContext))
  /\ (RouteReturned /\ r.selected_stage = "gemini-cloud")
       => AllNormalised(r.selected_calls, r.cloud_returned)
  /\ (RouteReturned /\ r.stages[2].selected)
       => r.selected_calls = r.local_calls

\* the order of the dispatch as the specification gives it
DispatchOrder ==
  <<"search_contacts", "send_message", "create_reminder", "set_alarm",
    "set_timer", "get_weather", "play_music">>

\* the emission requirement of a capability: its extractors found every
\* argument of the call
EmissionMet(name, ext) ==
  CASE name = "search_contacts" -> ext.query # <<>>
    [] name = "send_message"    -> ext.recipient # <<>> /\ ext.body # <<>>
    [] name = "create_reminder" -> ext.title # <<>> /\ ext.time # <<>>
    [] name = "set_alarm"       -> ext.alarm # <<>>
    [] name = "set_timer"       -> ext.mins # None
    [] name = "get_weather"     -> ext.location # <<>>
    [] name = "play_music"      -> ext.song # <<>>
    [] OTHER                    -> FALSE

\* positions of the capabilities that apply to the span
Applicable(part, available) ==
  {i \in 1..Len(DispatchOrder) :
     /\ DispatchOrder[i] \in available
     /\ CueMatches(DispatchOrder[i], Lower(part.toks))
     /\ EmissionMet(DispatchOrder[i], part.ext)}

\* C16: _parse_part returns the call of the first capability, in the order
\* search_contacts, send_message, create_reminder, set_alarm, set_timer,
\* get_weather, play_music, that is registered, triggered and meets its
\* emission requirement; it returns no call when none applies.
C16_FirstApplicableWins ==
  (f.op = "_parse_part" /\ f.pc = "returned") =>
    LET app == Applicable(f.part, f.available)
    IN IF app = {} THEN f.call = NoCall
       ELSE LET first == CHOOSE i \in app : \A j \in app : i <= j
            IN /\ f.call # NoCall
               /\ f.call.name = DispatchOrder[first]

\* two capabilities apply and the earlier one was emitted
C16_Witness ==
  /\ f.op = "_parse_part"
  /\ f.pc = "returned"
  /\ Cardinality(Applicable(f.part, f.available)) >= 2
  /\ f.call.name = "send_message"
  /\ CueMatches("get_weather", Lower(f.part.toks))
  /\ "get_weather" \in f.available

\* the weight-table score of a pool member of the current request
RawScore(cand) ==
  _candidate_score(cand[2], h.tools, h.user_query, h.expected_actions)

\* the score with the bonus of the deterministic origin
BonusScore(cand) == RawScore(cand) + (IF cand[1] = "det" THEN 1 ELSE 0)

\* the deterministic member is in the pool and no other member has a
\* greater raw score
DetTiesBest ==
  \E i \in 1..Len(h.candidates) :
    /\ h.candidates[i][1] = "det"
    /\ \A j \in 1..Len(h.candidates) :
         RawScore(h.candidates[j]) <= RawScore(h.candidates[i])

\* C17: on escalation with a non-empty pool the selected set is a pool
\* member of maximum score after +1 is added to the deterministic member,
\* and the deterministic member is selected whenever its raw score equals
\* the best raw score of the other members.
C17_MaxScoreDetBonus ==
  (HybridReturned /\ h.n_full = 1 /\ h.candidates # <<>>) =>
    /\ \E i \in 1..Len(h.candidates) :
         /\ h.candidates[i] = <<h.best_name, h.chosen_calls>>
         /\ \A j \in 1..Len(h.candidates) :
              BonusScore(h.candidates[j]) <= BonusScore(h.candidates[i])
    /\ DetTiesBest => h.best_name = "det"

\* the local member has the raw score of the deterministic member, and the
\* deterministic member was selected
C17_Witness ==
  /\ HybridReturned
  /\ h.n_full = 1
  /\ Len(h.candidates) = 3
  /\ RawScore(h.candidates[1]) = RawScore(h.candidates[2])
  /\ DetTiesBest
  /\ h.best_name = "det"

\* a set that may enter the pool: non-empty and passed by _validate
ValidNonEmpty(calls) == calls # <<>> /\ _validate(calls, h.tools)

\* the members the pool must hold, in any order
ExpectedPool ==
  LET det == h.det_calls
      local == FirstOccurrencesFrom(h.local.function_calls, 1)
  IN (IF ValidNonEmpty(det) THEN {<<"det", det>>} ELSE {})
     \cup (IF ValidNonEmpty(local) THEN {<<"local", local>>} ELSE {})
     \cup (IF ValidNonEmpty(det) /\ ValidNonEmpty(local)
           THEN {<<"merged", FirstOccurrencesFrom(det \o local, 1)>>}
           ELSE {})

\* C18: on escalation the pool holds exactly the deterministic set iff it is
\* valid and non-empty, the deduplicated local set iff it is valid and
\* non-empty, and the deduplicated concatenation deterministic+local iff both
\* are; no invalid or empty set is in the pool and the merged member is valid.
C18_PoolMembers ==
  (HybridEnded /\ h.n_full = 1) =>
    /\ Range(h.candidates) = ExpectedPool
    /\ Len(h.candidates) = Cardinality(ExpectedPool)
    /\ \A i \in 1..Len(h.candidates) : ValidNonEmpty(h.candidates[i][2])

\* the three members are in the pool and the merged one is longer than both
C18_Witness ==
  /\ HybridReturned
  /\ h.n_full = 1
  /\ Len(h.candidates) = 3
  /\ h.candidates[3][1] = "merged"
  /\ Len(h.candidates[3][2]) > Len(h.det_calls)
  /\ Len(h.candidates[3][2]) > Len(h.local_calls)

\* C19: on escalation with an empty pool generate_hybrid returns the local
\* set if it is non-empty, otherwise the deterministic set if it is
\* non-empty, otherwise the empty plan; an invalid set is returned only when
\* neither set is valid and non-empty.
C19_EmptyPoolFallback ==
  (HybridReturned /\ h.n_full = 1) =>
    /\ h.candidates = <<>> =>
         h.chosen_calls = IF h.local_calls # <<>> THEN h.local_calls
                          ELSE IF h.det_calls # <<>> THEN h.det_calls
                          ELSE <<>>
    /\ (h.chosen_calls # <<>> /\ ~_validate(h.chosen_calls, h.tools)) =>
         /\ ~ValidNonEmpty(h.det_calls)
         /\ ~ValidNonEmpty(h.local_calls)

\* both sets are non-empty and invalid, and the local one was returned
C19_Witness ==
  /\ HybridReturned
  /\ h.n_full = 1
  /\ h.candidates = <<>>
  /\ h.det_calls # <<>>
  /\ h.local_calls # <<>>
  /\ h.local_calls # h.det_calls
  /\ h.chosen_calls = h.local_calls

\* C20: a request that does not escalate issues exactly one presence probe
\* and no full local inference, and returns the deduplicated deterministic
\* set unchanged with confidence max(0.92, quality score).
C20_ProbePath ==
  /\ (HybridEnded /\ ~EscalationCondition) =>
       /\ h.n_probe = 1
       /\ h.n_full = 0
  /\ (HybridReturned /\ ~EscalationCondition) =>
       /\ h.chosen_calls = h.det_calls
       /\ h.chosen_calls
            = FirstOccurrencesFrom(ParseParts(h.parts, AvailableNames(h.tools),
                                              NoContext), 1)
       /\ LET quality == _deterministic_quality(h.det_calls, h.tools,
                                                h.user_query)
          IN /\ RLe(h.confidence, RMax(<<92, 100>>, quality))
             /\ RLe(RMax(<<92, 100>>, quality), h.confidence)

\* the probe path with a quality score below 0.92
C20_Witness ==
  /\ HybridReturned
  /\ ~EscalationCondition
  /\ h.n_probe = 1
  /\ h.det_calls # <<>>
  /\ RLt(h.det_quality, <<92, 100>>)
  /\ RLe(QualityFloor, h.det_quality)

\* the floor the specification gives to each selected origin
OriginFloor(origin) ==
  CASE origin = "local"  -> <<80, 100>>
    [] origin = "merged" -> <<85, 100>>
    [] origin = "det"    -> <<75, 100>>

REq(a, b) == RLe(a, b) /\ RLe(b, a)

\* C21: on escalation with a non-empty pool the returned confidence equals
\* max(self-reported local confidence, floor), with floor 0.80 for the local
\* set, 0.85 for the merged set and 0.75 for the deterministic set, so it is
\* never below the floor of the selected origin.
C21_ConfidenceFloors ==
  (HybridReturned /\ h.n_full = 1 /\ h.candidates # <<>>) =>
    /\ h.best_name \in {"det", "local", "merged"}
    /\ REq(h.confidence,
           RMax(h.local.confidence.v, OriginFloor(h.best_name)))
    /\ RLe(OriginFloor(h.best_name), h.confidence)

\* the merged set was selected and the local tier reported less than 0.85
C21_Witness ==
  /\ HybridReturned
  /\ h.n_full = 1
  /\ h.best_name = "merged"
  /\ RLt(h.local.confidence.v, <<85, 100>>)
  /\ REq(h.confidence, <<85, 100>>)

\* the action keywords that belong to tools other than send_message
OtherToolWords ==
  {w \in ActionWords : <<w>> \notin _TOOL_KEYWORDS("send_message")}

\* the three message rows of the weight table
TableMessageRows(args, q) ==
  LET rec == Lower(Strip(StrOf(Get(args, "recipient"))))
      msg == Lower(Strip(StrOf(Get(args, "message"))))
  IN (IF rec \in FillerRecipients THEN 20 ELSE 0)
     + (IF HasAt(rec) /\ ~InText(rec, q) THEN 10 ELSE 0)
     + (IF Cardinality({w \in OtherToolWords : InText(<<w>>, msg)}) >= 2
        THEN 8 ELSE 0)

\* the rows of the weight table that are counted per call
TableCallRows(call, q) ==
  (IF KeywordInText(call.name, q) THEN 4 ELSE 0)
  + SumSeq([i \in 1..Len(SortedKeys) |->
              IF SortedKeys[i] \in DOMAIN call.arguments
              THEN ArgPoints(call.arguments[SortedKeys[i]], q) ELSE 0])
  - (IF call.name = "send_message"
     THEN TableMessageRows(call.arguments, q) ELSE 0)

\* the additive weight table as the specification states it
WeightTable(calls, tools, query, expected) ==
  IF calls = <<>> THEN -10000
  ELSE (IF _validate(calls, tools) THEN 100 ELSE -100)
       + 15 * Len(calls)
       - 6 * Abs(Len(calls) - expected)
       - 4 * (Len(calls) - Cardinality({calls[i].name : i \in 1..Len(calls)}))
       + SumSeq([i \in 1..Len(calls) |-> TableCallRows(calls[i], Lower(query))])

\* C22: _candidate_score of a candidate set equals exactly the additive
\* weight table, whose last row takes 8 points from a message call whose
\* body holds at least two action keywords of other tools.
C22_ScoreIsWeightTable ==
  (f.op = "_candidate_score" /\ f.pc = "returned") =>
    f.score = WeightTable(f.calls, f.tools, f.query, f.expected)

\* the tokens of a text that are neither white space nor delimiters
IsDelimiterTok(t) ==
  t = WS \/ <<LowerTok(t)>> \in ChunkDelimiters \cup PieceDelimiters
Wording(toks) == SelectSeq(toks, LAMBDA t : ~IsDelimiterTok(t))

RECURSIVE Flatten(_)
Flatten(ss) == IF ss = <<>> THEN <<>> ELSE Head(ss) \o Flatten(Tail(ss))

\* the spans the re-merge rule gives for the pieces of one chunk: a piece
\* after the first opens a span only if it holds an action keyword and the
\* span read so far is not in the middle of a message body
RECURSIVE RemergeRule(_, _, _)
RemergeRule(pieces, i, spans) ==
  IF i > Len(pieces) THEN spans
  ELSE LET last == spans[Len(spans)]
           midBody == _MESSAGE_MARKER_RE(last) /\ ~_contains_action(pieces[i])
       IN IF _contains_action(pieces[i]) /\ ~midBody
          THEN RemergeRule(pieces, i + 1, Append(spans, pieces[i]))
          ELSE RemergeRule(pieces, i + 1,
                           [spans EXCEPT ![Len(spans)] =
                              last \o <<"and">> \o pieces[i]])

HasNoDelimiter(toks) == \A i \in 1..Len(toks) : toks[i] = WS \/ ~IsDelimiterTok(toks[i])
IsOneChunk(toks) == \A i \in 1..Len(toks) : <<toks[i]>> \notin ChunkDelimiters

\* C23: within one chunk the pieces are re-merged left to right, a piece
\* after the first opening a span only if it holds an action keyword and the
\* accumulator is not mid-message-body, every other piece being appended
\* with "and"; a text without delimiter gives exactly one trimmed span; the
\* spans keep the order of the utterance.
C23_RemergeKeepsBodies ==
  (f.op = "_split_actions" /\ f.pc = "returned") =>
    LET parts == f.split.parts
        pieces == StrippedPieces(f.query, PieceDelimiters)
    IN /\ (IsOneChunk(f.query) /\ Len(pieces) >= 2) =>
            /\ parts = RemergeRule(pieces, 2, <<pieces[1]>>)
            /\ \A i \in 2..Len(parts) : _contains_action(parts[i])
       /\ HasNoDelimiter(f.query) => parts = <<Strip(f.query)>>
       /\ \A i \in 1..Len(parts) : parts[i] = Strip(parts[i])
       /\ Wording(Flatten(parts)) = Wording(f.query)

\* "play and hi Then play": the plain piece is appended with "and", the
\* action piece opens the second span
C23_Witness ==
  /\ f.op = "_split_actions"
  /\ f.pc = "returned"
  /\ f.query = <<"play", "and", "hi", "Then", "play">>
  /\ f.split.parts = <<<<"play", "and", "hi">>, <<"play">>>>

\* C24: a send_message call whose extracted recipient is a pronoun is
\* emitted with the context's last-contact when one is set; last-contact
\* becomes the query of an emitted search_contacts call and the final
\* recipient of an emitted send_message call, which has a recipient and a
\* body, and every other span leaves it unchanged.
C24_LastContactFrame ==
  (f.op = "_parse_part" /\ f.pc = "returned") =>
    LET last == f.context.last_contact
        pronoun == Lower(f.part.ext.recipient) \in {<<"him">>, <<"her">>, <<"them">>}
    IN /\ (f.call.name = "send_message" /\ pronoun /\ last # <<>>) =>
            f.call.arguments["recipient"] = Str(last)
       /\ (f.call.name = "send_message" /\ ~(pronoun /\ last # <<>>)) =>
            f.call.arguments["recipient"] = Str(f.part.ext.recipient)
       /\ f.call.name = "search_contacts" =>
            f.after.last_contact = f.call.arguments["query"].s
       /\ f.call.name = "send_message" =>
            /\ f.after.last_contact = f.call.arguments["recipient"].s
            /\ f.call.arguments["recipient"].s # <<>>
            /\ f.call.arguments["message"].s # <<>>
       /\ f.call.name \notin {"search_contacts", "send_message"} =>
            f.after = f.context

\* "text him hello" after Bob was the last contact: the message goes to Bob
C24_Witness ==
  /\ f.op = "_parse_part"
  /\ f.pc = "returned"
  /\ f.part = SpTextHim
  /\ f.context.last_contact = <<"Bob">>
  /\ f.call = Call("send_message", [recipient |-> Str(<<"Bob">>),
                                    message |-> Str(<<"hello">>)])
  /\ f.after.last_contact = <<"Bob">>

\* C25: every set_alarm call of the deterministic extractor has an hour in
\* 0..23 and a minute in 0..59 for every time form it accepts; 12 AM gives
\* hour 0, 12 PM hour 12, and any other PM hour h gives h + 12.
C25_AlarmInRange ==
  (f.op = "set_alarm" /\ f.pc = "returned" /\ f.call.name = "set_alarm") =>
    LET hour == f.call.arguments["hour"]
        minute == f.call.arguments["minute"]
        t == f.time_text
    IN /\ hour.k = "num" /\ hour.n \in 0..23
       /\ minute.k = "num" /\ minute.n \in 0..59
       /\ (t.hour = 12 /\ t.ampm = "A") => hour.n = 0
       /\ (t.hour = 12 /\ t.ampm = "P") => hour.n = 12
       /\ (t.hour \in 1..11 /\ t.ampm = "P") => hour.n = t.hour + 12

\* C26: the plan _route_plan returns is empty or passes _validate against
\* MEETING_TOOLS, whatever the local and the cloud tier return, for every
\* threshold and both values of allow_cloud.
C26_PlanEmptyOrValid ==
  RouteReturned =>
    \/ r.selected_calls = <<>>
    \/ _validate(r.selected_calls, MEETING_TOOLS)

\* the local tier returned calls that do not validate, the cloud was
\* disabled, and the plan is not those calls
C26_Witness ==
  /\ RouteReturned
  /\ ~r.allow_cloud
  /\ r.n_local = 1
  /\ r.local_calls # <<>>
  /\ ~_validate(r.local_calls, MEETING_TOOLS)
  /\ r.selected_calls # r.local_calls

SelectedStages == {i \in 1..Len(r.stages) : r.stages[i].selected}

\* C27: in every result at most one stage has selected = true, a stage has
\* selected = true exactly when its status is "selected", and a non-empty
\* plan has exactly one selected stage, whose id is route.selected_stage.
C27_OneSelectedStage ==
  RouteReturned =>
    /\ Cardinality(SelectedStages) <= 1
    /\ \A i \in 1..Len(r.stages) :
         r.stages[i].selected <=> (r.stages[i].status = "selected")
    /\ r.selected_calls # <<>> =>
         /\ Cardinality(SelectedStages) = 1
         /\ \A i \in SelectedStages : r.stages[i].id = r.selected_stage

\* the cloud failed and the valid local plan was returned after all
C27_Witness ==
  /\ RouteReturned
  /\ r.n_cloud = 1
  /\ r.selected_calls # <<>>
  /\ r.selected_stage = "functiongemma-local"
  /\ r.stages[2].selected
  /\ r.stages[3].status = "fallback-failed"
  /\ ~r.stages[1].selected

\* the deterministic candidate is ready, in the words of the specification
CandidateReady ==
  /\ r.deterministic.calls # <<>>
  /\ r.deterministic.valid
  /\ ~r.deterministic.unparsed_action
  /\ RLe(r.confidence_threshold, r.deterministic.confidence)

\* C28: the cloud tier is invoked only if allow_cloud is true, the
\* deterministic candidate is not ready and the local result is empty,
\* invalid or below the threshold; never before the local tier was
\* attempted; with allow_cloud false it is never invoked and the source is
\* "on-device".
C28_CloudOnlyAfterLocal ==
  /\ r.n_cloud > 0 =>
       /\ r.allow_cloud
       /\ r.n_det = 1 /\ ~CandidateReady
       /\ r.n_local = 1
       /\ \/ r.local_calls = <<>>
          \/ ~_validate(r.local_calls, MEETING_TOOLS)
          \/ RLt(r.local_confidence, r.confidence_threshold)
  /\ (RouteEnded /\ ~r.allow_cloud) => r.n_cloud = 0
  /\ (RouteReturned /\ ~r.allow_cloud) => r.selected_source = "on-device"

\* a valid local plan below the threshold sent the request to the cloud,
\* whose plan was returned
C28_Witness ==
  /\ RouteReturned
  /\ r.n_cloud = 1
  /\ r.local_calls # <<>>
  /\ r.local_valid
  /\ RLt(r.local_confidence, r.confidence_threshold)
  /\ r.selected_source = "cloud"

\* C29: argument normalization is idempotent: _clean_calls applied to its
\* own output leaves every argument value and its type unchanged, for time
\* fields and all other fields and for every kind of input value.
C29_CleanIdempotent ==
  (f.op = "_clean_calls" /\ f.pc = "twice") => f.twice = f.out

\* no _update_session_metrics call is in progress
MetricsQuiescent == \A t \in Threads : sm.pc[t] = "idle"

\* C30: after any interleaving of concurrent _update_session_metrics calls
\* no update is lost: turns is the number of calls for the session,
\* on_device_turns the number of those with source "on-device",
\* exact_f1_count the number of those with an exact_f1, so on_device_turns
\* <= turns and on_device_ratio <= 100; a session that no call names keeps
\* its metrics.
C30_NoLostUpdate ==
  MetricsQuiescent =>
    /\ \A s \in Sessions :
         LET state == StateOf(sm.metrics, s)
         IN /\ state.turns = sm.issued[s].turns
            /\ state.on_device_turns = sm.issued[s].on_device
            /\ state.exact_f1_count = sm.issued[s].exact
            /\ state.on_device_turns <= state.turns
            /\ sm.issued[s].turns = 0 => s \notin DOMAIN sm.metrics
    /\ \A t \in Threads : RLe(sm.ret[t].on_device_ratio, <<100, 1>>)

\* four calls from two threads: three for one session, two of them
\* on-device with an exact_f1, and one for the other session
C30_Witness ==
  /\ MetricsQuiescent
  /\ sm.left = 0
  /\ DOMAIN sm.metrics = Sessions
  /\ sm.metrics["s1"].turns = 3
  /\ sm.metrics["s1"].on_device_turns = 2
  /\ sm.metrics["s1"].exact_f1_count = 2
  /\ sm.metrics["s2"].turns = 1

====
